---- MODULE Spec2Model ----
(***************************************************************************)
(* Model of the aud capture program: the CLI variant (src/main.cpp) and    *)
(* the GUI variant (src/unnamed/part_001 with the App of part_000 and      *)
(* part_002).                                                              *)
(*                                                                         *)
(* Spec        : start-up of one capture session: device enumeration,      *)
(*               device resolution, stream negotiation, stream start.      *)
(* SpecHandoff : the running GUI session: the audio callback publishing    *)
(*               into the App and the refresh timer consuming it.          *)
(*                                                                         *)
(* C strings are sequences of one-character strings; latencies are in      *)
(* milliseconds.                                                           *)
(***************************************************************************)
EXTENDS Integers, Sequences, FiniteSets, TLC

VARIABLES
    variant,              \* "cli" (src/main.cpp) or "gui" (part_001)
    pc,                   \* position of main / audioThreadFunc
    devices,              \* PortAudio's device table (Pa_GetDeviceInfo)
    numDevices,           \* result of Pa_GetDeviceCount
    thr5CardIndex,
    useAlsaDeviceString,
    device,
    deviceCandidates,
    d,
    c,
    opened,
    openErr,
    inputParameters,
    alsaDeviceString,
    inputChannels,        \* spectroData->inputChannels
    stream,               \* the open stream: the parameters it was opened with
    attempts,             \* history: every Pa_OpenStream call, in order
    reportedErr,          \* error named by the failure diagnostic
    exitStatus,
    \* ---- the App's shared data and the two threads that use it
    dataMutex,            \* holder of App::dataMutex
    dataReady,
    currentSampleRate,
    amplitudeBuffer,      \* frame held by timeBuffer/amplitudeBuffer
    magnitudeBuffer,      \* frame held by freqBuffer/magnitudeBuffer
    amplitudeValues,      \* the elements of amplitudeBuffer
    magnitudeValues,      \* the elements of magnitudeBuffer
    wpc,                  \* audio callback thread inside updateAudioData
    wframe,               \* frame the callback is publishing
    rpc,                  \* GUI thread inside refreshPlots
    plotTime,             \* frame shown by timeDomainPlot
    plotFreq,             \* frame shown by frequencyDomainPlot
    plotRate,             \* sample rate used for the time axis
    nframes,              \* callbacks delivered so far
    nreads,               \* timer ticks so far
    published,            \* history: frames whose publish completed
    rendered,             \* history: per consuming refresh, the frames it plotted
    reads,                \* history: per refresh, what it observed at its test
    replots,              \* history: number of replot() calls by refreshPlots
    \* ---- the capture session's life: what it holds, and who ends it
    streamActive,         \* the stream is started and not yet stopped
    shouldStop,           \* App::shouldStop
    g_app,                \* the global App pointer
    mpc,                  \* the GUI variant's main thread
    step,                 \* position in the acquisitions or in the teardown
    acquired,             \* history: resources acquired, in order
    released,             \* history: resources released, in order
    sleepsAfterStop,      \* history: Pa_Sleep calls that ended with shouldStop set
    polledBy,             \* history: the threads that have read shouldStop
    staleAccess,          \* history: a callback ran after a frame buffer was freed
    \* ---- the card registry and its scan by getThr5AlsaCardIndex
    cards,                \* the lines of /proc/asound/cards
    lineNo,               \* the line fgets returns next
    currentCardIndex,
    cardIndex,
    asoundDir,            \* the entries of /proc/asound that readdir has returned
    result,               \* getThr5AlsaCardIndex's return value
    \* ---- one call of containsIgnoreCase
    matchText,            \* its argument text
    matchPattern,         \* its argument pattern
    matched,              \* what it returned ("none": not called yet)
    \* ---- one run of streamCallback on a buffer of samples
    cbInput,              \* inputBuffer: the interleaved samples
    cbpc,                 \* the stage the callback is at
    b_,                   \* b: the filter's coefficients (filt.h)
    in_,                  \* callbackData->in
    filtered,             \* callbackData->filtered
    filterHistory,        \* callbackData->filterHistory
    out,                  \* callbackData->out
    readIndices,          \* history: the indices of inputBuffer read by this callback
    ncallbacks,           \* history: the callbacks entered so far
    before,               \* history: channel 0 of the buffer of the callback before
    \* ---- the drawing of one spectrogram line
    startIndex,           \* callbackData->startIndex
    spectroSize,          \* callbackData->spectroSize
    dispSize,
    column,               \* the loop variable i of the drawing loop
    sampled,              \* history: the index of out sampled for each column
    freq,                 \* the value of out sampled last, in units of 1/FreqResolution
    glyph,                \* the tier of the glyph printed last, -1 when none was
    \* ---- the callback's other arguments and its result
    statusFlags,          \* the PaStreamCallbackFlags of the current callback
    cbResults             \* history: the values the callbacks returned

negVars == <<variant, pc, devices, numDevices, thr5CardIndex,
             useAlsaDeviceString, device, deviceCandidates, d, c, opened, openErr,
             inputParameters, alsaDeviceString, inputChannels, stream, attempts,
             reportedErr, exitStatus>>

appVars == <<dataMutex, dataReady, currentSampleRate, amplitudeBuffer,
             magnitudeBuffer, amplitudeValues, magnitudeValues, wpc, wframe, rpc, plotTime, plotFreq, plotRate,
             nframes, nreads, published, rendered, reads, replots>>

lifeVars == <<shouldStop, g_app, mpc, step, acquired, sleepsAfterStop, polledBy,
              staleAccess>>

sesVars == <<streamActive, released, lifeVars>>

cbVars == <<cbInput, cbpc, b_, in_, filtered, filterHistory, out, readIndices,
            ncallbacks, before, startIndex, spectroSize, dispSize, column, sampled,
            freq, glyph, statusFlags, cbResults>>

matchVars == <<matchText, matchPattern, matched>>

regVars == <<cards, lineNo, currentCardIndex, cardIndex, asoundDir, result,
             matchVars>>

vars == <<negVars, appVars, sesVars, cbVars, regVars>>

----------------------------------------------------------------------------
(* Bounds of the model *)

MaxDevices == 2
MaxFrames == 3
MaxReads == 3
MaxSleeps == 2
MaxLines == 2
MaxDirEntries == 2
MaxCallbacks == 2
\* the signal path is followed on frames of 2^FramesLog2 samples and a filter
\* of FilterTaps taps (the program's are 512 and 101)
FramesLog2 == 1
FilterTaps == 2
MaxColumns == 13
\* the values drawn are followed in steps of 1/FreqResolution
FreqResolution == 16

(* Program constants *)

NUM_CHANNELS == 2
SAMPLE_RATE == 44100
AlsaLatencyMs == 10
paNoDevice == -1
paUseHostApiSpecificDeviceSpecification == -2
DeviceStringSize == 32
FRAMES_PER_BUFFER == 512
SPECTRO_FREQ_START == 20
SPECTRO_FREQ_END == 20000
MinDispSize == 10
FallbackColumns == 100
NumTiers == 8

----------------------------------------------------------------------------
(* Strings *)

Upper == <<"A","B","C","D","E","F","G","H","I","J","K","L","M",
           "N","O","P","Q","R","S","T","U","V","W","X","Y","Z">>
Lower == <<"a","b","c","d","e","f","g","h","i","j","k","l","m",
           "n","o","p","q","r","s","t","u","v","w","x","y","z">>

tolower(ch) ==
    IF \E i \in 1..Len(Upper) : Upper[i] = ch
    THEN Lower[CHOOSE i \in 1..Len(Upper) : Upper[i] = ch]
    ELSE ch

ToLowerStr(s) == [i \in 1..Len(s) |-> tolower(s[i])]

\* std::string::find(pattern) != npos
Find(text, pattern) ==
    \E k \in 0..(Len(text) - Len(pattern)) :
        \A j \in 1..Len(pattern) : text[k + j] = pattern[j]

\* a null char* (no string holds this element)
NullPtr == <<"NULL">>

\* std::string s = p == NULL ? "" : p
StdString(p) == IF p = NullPtr THEN <<>> ELSE p

containsIgnoreCase(text, pattern) ==
    Find(ToLowerStr(StdString(text)), ToLowerStr(StdString(pattern)))

Digit == <<"0","1","2","3","4","5","6","7","8","9">>

RECURSIVE FormatNat(_)
FormatNat(n) ==
    IF n < 10 THEN <<Digit[n + 1]>>
    ELSE FormatNat(n \div 10) \o <<Digit[(n % 10) + 1]>>

\* printf's %d
FormatInt(n) == IF n < 0 THEN <<"-">> \o FormatNat(-n) ELSE FormatNat(n)

\* snprintf(buf, size, ...): at most size-1 characters are stored
Snprintf(size, s) == IF Len(s) > size - 1 THEN SubSeq(s, 1, size - 1) ELSE s

S_plughw == <<"p","l","u","g","h","w",":">>
S_hw == <<"h","w",":">>
S_dsnoop == <<"d","s","n","o","o","p",":">>
S_sysdefault == <<"s","y","s","d","e","f","a","u","l","t",":">>
S_comma0 == <<",","0">>
S_THR5 == <<"T","H","R","5">>
S_Yamaha == <<"Y","a","m","a","h","a">>
S_USB == <<"U","S","B">>
S_pulse == <<"p","u","l","s","e">>
S_card == <<"c","a","r","d">>
S_usbid_THR5 == <<"0","4","9","9",":","1","5","0","6">>
S_default == <<"d","e","f","a","u","l","t">>

----------------------------------------------------------------------------
(* The environment: PortAudio's device table and the resolver's result *)

DeviceNames ==
    { <<"t","h","r","5">>, S_Yamaha, S_USB, <<"P","u","l","s","e">>, S_default }

MaxInputChannelCounts == 0..3

\* the i-th device's low input latency in ms: every device has its own
LatencyOf(i) == 5 * i

DeviceShapes == [name : DeviceNames, maxInputChannels : MaxInputChannelCounts]

PaDeviceInfo(shape, i) ==
    [name |-> shape.name,
     maxInputChannels |-> shape.maxInputChannels,
     defaultLowInputLatency |-> LatencyOf(i)]

DeviceTables ==
    UNION { { [i \in 1..n |-> PaDeviceInfo(shapes[i], i)] : shapes \in [1..n -> DeviceShapes] }
            : n \in 0..MaxDevices }

\* what getThr5AlsaCardIndex can return: -1 (not found) or a card index
CardIndexResults == {-1, 0, 2, 13}

\* Pa_GetDeviceInfo(i), i counted from 0
Pa_GetDeviceInfo(i) == devices[i + 1]

DefaultInputDevices ==
    LET capable == { i \in 0..(Len(devices) - 1) : Pa_GetDeviceInfo(i).maxInputChannels > 0 }
    IN IF capable = {} THEN {paNoDevice} ELSE capable

\* Pa_OpenStream's result for the n-th call of the session: paNoError, or an
\* error code of that call (PortAudio's error codes are negative)
paNoError == 0
OpenResults(n) == {paNoError, -n}

----------------------------------------------------------------------------
(* Helpers of main / audioThreadFunc *)

findInputDeviceByName_Last(n, pattern) ==
    LET hits == { i \in 0..(n - 1) :
                    /\ Pa_GetDeviceInfo(i).maxInputChannels > 0
                    /\ containsIgnoreCase(Pa_GetDeviceInfo(i).name, pattern) }
    IN IF hits = {} THEN paNoDevice
       ELSE CHOOSE i \in hits : \A j \in hits : i >= j

\* the first input device, in PortAudio's order, whose name holds the pattern
findInputDeviceByName(n, pattern) ==
    LET hits == { i \in 0..(n - 1) :
                    /\ Pa_GetDeviceInfo(i).maxInputChannels > 0
                    /\ containsIgnoreCase(Pa_GetDeviceInfo(i).name, pattern) }
    IN IF hits = {} THEN paNoDevice
       ELSE CHOOSE i \in hits : \A j \in hits : i <= j

channelCandidates_MonoFirst == <<1, NUM_CHANNELS>>

channelCandidates == <<NUM_CHANNELS, 1>>

DeviceCandidates_HwFirst(K) ==
    << Snprintf(DeviceStringSize, S_hw \o FormatInt(K) \o S_comma0),
       Snprintf(DeviceStringSize, S_plughw \o FormatInt(K) \o S_comma0),
       Snprintf(DeviceStringSize, S_dsnoop \o FormatInt(K) \o S_comma0),
       Snprintf(DeviceStringSize, S_sysdefault \o FormatInt(K) \o S_comma0),
       Snprintf(DeviceStringSize, S_sysdefault \o FormatInt(K)) >>

DeviceCandidates(K) ==
    << Snprintf(DeviceStringSize, S_plughw \o FormatInt(K) \o S_comma0),
       Snprintf(DeviceStringSize, S_hw \o FormatInt(K) \o S_comma0),
       Snprintf(DeviceStringSize, S_dsnoop \o FormatInt(K) \o S_comma0),
       Snprintf(DeviceStringSize, S_sysdefault \o FormatInt(K) \o S_comma0),
       Snprintf(DeviceStringSize, S_sysdefault \o FormatInt(K)) >>

NoString == <<>>

\* memset(&inputParameters, 0, ...); sampleFormat and channelCount set
InitialParameters ==
    [device |-> 0, deviceString |-> NoString,
     channelCount |-> NUM_CHANNELS, suggestedLatency |-> 0]

\* exit(EXIT_FAILURE) in the CLI; Pa_Terminate(); return; in the GUI's thread
FailPc == IF variant = "cli" THEN "exited" ELSE "returned"
FailStatus == IF variant = "cli" THEN "EXIT_FAILURE" ELSE "thread_returned"

\* what the session acquires before it looks for a device, in order:
\* Pa_Initialize, spectroData, its buffers, the FFTW plan
AcquisitionOrder ==
    IF variant = "cli"
    THEN <<"library", "struct", "in", "out", "plan">>
    ELSE <<"library", "struct", "in", "out", "filtered", "filterHistory", "plan">>

TeardownOrder_Reverse ==
    IF variant = "cli"
    THEN <<"stop", "close", "plan", "out", "in", "struct", "library">>
    ELSE <<"stop", "close", "plan", "filterHistory", "filtered", "out", "in",
           "struct", "library">>

TeardownOrder_FreeFirst ==
    IF variant = "cli"
    THEN <<"plan", "in", "out", "struct", "stop", "close", "library">>
    ELSE <<"plan", "in", "out", "filtered", "filterHistory", "struct", "stop",
           "close", "library">>

\* the calls that end a session, in order: Pa_StopStream, Pa_CloseStream,
\* Pa_Terminate, fftw_destroy_plan, then the frees
TeardownOrder ==
    IF variant = "cli"
    THEN <<"stop", "close", "library", "plan", "in", "out", "struct">>
    ELSE <<"stop", "close", "library", "plan", "in", "out", "filtered",
           "filterHistory", "struct">>

\* the resource a teardown call releases
ReleasedBy(op) == IF op = "stop" THEN <<>> ELSE IF op = "close" THEN <<"stream">> ELSE <<op>>

RECURSIVE ReleasesOf(_)
ReleasesOf(ops) ==
    IF ops = <<>> THEN <<>> ELSE ReleasedBy(Head(ops)) \o ReleasesOf(Tail(ops))

\* the release log when the capture thread leaves for p: the GUI variant's
\* failure paths call Pa_Terminate and return, the CLI variant's exit
ReleasedAfter(p) ==
    IF variant = "gui" /\ p = "returned" THEN Append(released, "library") ELSE released

----------------------------------------------------------------------------
(* State after Pa_Initialize, the allocation of spectroData and the App's  *)
(* construction                                                            *)

\* the session's life outside the capture thread: main has set g_app and
\* started the capture thread, and is in qapp.exec()
LifeInit ==
    /\ shouldStop = FALSE
    /\ g_app = IF variant = "gui" THEN "app" ELSE "nullptr"
    /\ mpc = IF variant = "gui" THEN "exec" ELSE "none"
    /\ released = <<>>
    /\ sleepsAfterStop = 0
    /\ polledBy = {}
    /\ staleAccess = FALSE

\* no callback is followed sample by sample
CbIdle ==
    /\ cbInput = <<>>
    /\ cbpc = "idle"
    /\ b_ = <<>>
    /\ in_ = <<>>
    /\ filtered = <<>>
    /\ filterHistory = <<>>
    /\ out = <<>>
    /\ readIndices = {}
    /\ ncallbacks = 0
    /\ before = <<>>
    /\ startIndex = 0
    /\ spectroSize = 0
    /\ dispSize = 0
    /\ column = 0
    /\ sampled = <<>>
    /\ freq = 0
    /\ glyph = -1
    /\ statusFlags = "none"
    /\ cbResults = <<>>

\* no card registry is read
RegIdle ==
    /\ cards = <<>>
    /\ lineNo = 1
    /\ currentCardIndex = -1
    /\ cardIndex = -1
    /\ asoundDir = <<>>
    /\ result = -1
    /\ matchText = <<>>
    /\ matchPattern = <<>>
    /\ matched = "none"

\* the acquisitions are done
Acquired ==
    /\ step = 0
    /\ acquired = AcquisitionOrder

AppInit ==
    /\ dataMutex = "free"
    /\ dataReady = FALSE
    /\ currentSampleRate = SAMPLE_RATE
    /\ amplitudeBuffer = 0
    /\ magnitudeBuffer = 0
    /\ amplitudeValues = <<>>
    /\ magnitudeValues = <<>>
    /\ wpc = "idle"
    /\ wframe = 0
    /\ rpc = "idle"
    /\ plotTime = 0
    /\ plotFreq = 0
    /\ plotRate = SAMPLE_RATE
    /\ nframes = 0
    /\ nreads = 0
    /\ published = <<>>
    /\ rendered = <<>>
    /\ reads = <<>>
    /\ replots = 0

\* the locals of main / audioThreadFunc before the device is looked for
NegLocals ==
    /\ thr5CardIndex = -1
    /\ useAlsaDeviceString = FALSE
    /\ device = paNoDevice
    /\ deviceCandidates = <<>>
    /\ d = 0
    /\ c = 0
    /\ opened = FALSE
    /\ openErr = paNoError
    /\ inputParameters = InitialParameters
    /\ alsaDeviceString = NoString
    /\ inputChannels = NUM_CHANNELS
    /\ stream = <<>>
    /\ streamActive = FALSE
    /\ attempts = <<>>
    /\ reportedErr = paNoError
    /\ exitStatus = "none"

NegInit ==
    /\ variant \in {"cli", "gui"}
    /\ pc = "enumerate"
    /\ devices \in DeviceTables
    /\ numDevices \in (IF devices = <<>> THEN {-1, 0} ELSE {Len(devices)})
    /\ NegLocals

Init == NegInit /\ AppInit /\ LifeInit /\ Acquired /\ CbIdle /\ RegIdle

----------------------------------------------------------------------------
(* main (src/main.cpp) and audioThreadFunc (part_001), up to the start of  *)
(* the stream                                                              *)

\* Pa_GetDeviceCount and the checks on its result
GetDeviceCount ==
    /\ pc = "enumerate"
    /\ IF numDevices < 0
       THEN /\ pc' = FailPc
            /\ exitStatus' = FailStatus
       ELSE IF numDevices = 0
       THEN /\ pc' = FailPc
            /\ exitStatus' = IF variant = "cli" THEN "EXIT_SUCCESS" ELSE "thread_returned"
       ELSE /\ pc' = "resolve"
            /\ UNCHANGED exitStatus
    /\ UNCHANGED <<variant, devices, numDevices, thr5CardIndex,
                   useAlsaDeviceString, device, deviceCandidates, d, c, opened,
                   openErr, inputParameters, alsaDeviceString, inputChannels, stream,
                   attempts, reportedErr, appVars, lifeVars, cbVars, regVars>>
    /\ UNCHANGED streamActive
    /\ released' = ReleasedAfter(pc')

SelectByName_UsbFirst(dflt) ==
    LET thr == findInputDeviceByName(numDevices, S_THR5)
        ymh == findInputDeviceByName(numDevices, S_Yamaha)
        usb == findInputDeviceByName(numDevices, S_USB)
        named == IF usb # paNoDevice THEN usb
                 ELSE IF ymh # paNoDevice THEN ymh
                 ELSE thr
    IN IF named = paNoDevice /\ variant = "gui" THEN dflt ELSE named

\* the device chosen from PortAudio's table when no card index is known;
\* dflt is Pa_GetDefaultInputDevice's result
SelectByName(dflt) ==
    LET thr == findInputDeviceByName(numDevices, S_THR5)
        ymh == findInputDeviceByName(numDevices, S_Yamaha)
        usb == findInputDeviceByName(numDevices, S_USB)
        named == IF thr # paNoDevice THEN thr
                 ELSE IF ymh # paNoDevice THEN ymh
                 ELSE usb
    IN IF named = paNoDevice /\ variant = "gui" THEN dflt ELSE named

IsCardIndex_Positive(k) == k > 0

\* the test that tells a card index from "not found"
IsCardIndex(k) == k >= 0

\* the choice between the card path and a device of PortAudio's table, k
\* being getThr5AlsaCardIndex's result
ChoosePath(k, dflt) ==
    /\ thr5CardIndex' = k
    /\ IF IsCardIndex(k)
       THEN /\ useAlsaDeviceString' = TRUE
            /\ pc' = "candidates"
            /\ UNCHANGED <<device, exitStatus>>
       ELSE /\ UNCHANGED useAlsaDeviceString
            /\ device' = SelectByName(dflt)
            /\ IF device' = paNoDevice
               THEN /\ pc' = FailPc
                    /\ exitStatus' = FailStatus
               ELSE IF /\ variant = "cli"
                       /\ Pa_GetDeviceInfo(device').maxInputChannels < NUM_CHANNELS
               THEN /\ pc' = FailPc
                    /\ exitStatus' = FailStatus
               ELSE /\ pc' = "open_generic"
                    /\ UNCHANGED exitStatus
    /\ UNCHANGED <<variant, devices, numDevices, deviceCandidates,
                   d, c, opened, openErr, inputParameters, alsaDeviceString,
                   inputChannels, stream, attempts, reportedErr, appVars, lifeVars, cbVars, regVars>>
    /\ UNCHANGED streamActive
    /\ released' = ReleasedAfter(pc')

\* getThr5AlsaCardIndex, whatever it finds, and the choice that follows
ResolveDevice ==
    /\ pc = "resolve"
    /\ \E k \in CardIndexResults, dflt \in DefaultInputDevices : ChoosePath(k, dflt)

\* the five device strings, and the loop variables' first values
BuildCandidates ==
    /\ pc = "candidates"
    /\ deviceCandidates' = DeviceCandidates(thr5CardIndex)
    /\ opened' = FALSE
    /\ d' = 0
    /\ c' = 0
    /\ pc' = "alsa_open"
    /\ UNCHANGED <<variant, devices, numDevices, thr5CardIndex,
                   useAlsaDeviceString, device, openErr, inputParameters,
                   alsaDeviceString, inputChannels, stream, attempts, reportedErr,
                   exitStatus, appVars, lifeVars, cbVars, regVars>>
    /\ UNCHANGED streamActive
    /\ released' = ReleasedAfter(pc')

LoopGoesOn_NoStop(i, limit, isOpened) == i < limit

\* a for loop's condition in the negotiation: i < limit && !opened
LoopGoesOn(i, limit, isOpened) == i < limit /\ ~isOpened

RecordedDeviceString_First(dd) == Snprintf(DeviceStringSize, deviceCandidates[1])

\* what a successful device-string open stores in alsaDeviceString
RecordedDeviceString(dd) == Snprintf(DeviceStringSize, deviceCandidates[dd + 1])

RecordedChannels_Requested(ch) == NUM_CHANNELS

\* what a successful open stores in spectroData->inputChannels
RecordedChannels(ch) == ch

\* one iteration of the nested loops: one Pa_OpenStream on a device string
TryAlsaOpen ==
    /\ pc = "alsa_open"
    /\ \E err \in OpenResults(Len(attempts) + 1) :
        LET params == [device |-> paUseHostApiSpecificDeviceSpecification,
                       deviceString |-> deviceCandidates[d + 1],
                       channelCount |-> channelCandidates[c + 1],
                       suggestedLatency |-> AlsaLatencyMs]
            ok == err = paNoError
            innerGoes == LoopGoesOn(c + 1, 2, ok)
            d1 == IF innerGoes THEN d ELSE d + 1
            outerGoes == LoopGoesOn(d1, 5, ok)
        IN /\ inputParameters' = params
           /\ openErr' = err
           /\ attempts' = Append(attempts, [params |-> params, result |-> err])
           /\ IF ok
              THEN /\ alsaDeviceString' = RecordedDeviceString(d)
                   /\ inputChannels' = RecordedChannels(channelCandidates[c + 1])
                   /\ opened' = TRUE
                   /\ stream' = <<params>>
              ELSE UNCHANGED <<alsaDeviceString, inputChannels, opened, stream>>
           /\ d' = d1
           /\ c' = IF ~innerGoes /\ outerGoes THEN 0 ELSE c + 1
           /\ pc' = IF innerGoes \/ outerGoes THEN "alsa_open"
                    ELSE IF opened' THEN "start"
                    ELSE "fallback"
    /\ UNCHANGED <<variant, devices, numDevices, thr5CardIndex,
                   useAlsaDeviceString, device, deviceCandidates, reportedErr,
                   exitStatus, appVars, lifeVars, cbVars, regVars>>
    /\ UNCHANGED streamActive
    /\ released' = ReleasedAfter(pc')

\* the shared audio server's input endpoint, by name
FindPulseDevice ==
    LET pulse == findInputDeviceByName(numDevices, S_pulse)
    IN IF pulse # paNoDevice THEN pulse
       ELSE findInputDeviceByName(numDevices, S_default)

PulseChannels_Uncapped(maxIn) == maxIn

PulseChannels(maxIn) == IF maxIn >= NUM_CHANNELS THEN NUM_CHANNELS ELSE 1

FallbackOpenErr_Stale(prev, err) == prev

\* the error kept in openErr after the fallback's Pa_OpenStream
FallbackOpenErr(prev, err) == err

\* after the loops, nothing opened: the shared-server fallback, then the
\* final test of opened
PulseFallback ==
    /\ pc = "fallback"
    /\ LET pulseDevice == FindPulseDevice
       IN IF pulseDevice # paNoDevice /\ Pa_GetDeviceInfo(pulseDevice).maxInputChannels > 0
          THEN \E err \in OpenResults(Len(attempts) + 1) :
                LET pulseInfo == Pa_GetDeviceInfo(pulseDevice)
                    pulseChannels == PulseChannels(pulseInfo.maxInputChannels)
                    params == [device |-> pulseDevice,
                               deviceString |-> NoString,
                               channelCount |-> pulseChannels,
                               suggestedLatency |-> pulseInfo.defaultLowInputLatency]
                IN /\ inputParameters' = params
                   /\ openErr' = FallbackOpenErr(openErr, err)
                   /\ attempts' = Append(attempts, [params |-> params, result |-> err])
                   /\ IF err = paNoError
                      THEN /\ inputChannels' = RecordedChannels(pulseChannels)
                           /\ opened' = TRUE
                           /\ stream' = <<params>>
                      ELSE UNCHANGED <<inputChannels, opened, stream>>
          ELSE UNCHANGED <<inputParameters, openErr, attempts, inputChannels, opened,
                           stream>>
    /\ IF opened'
       THEN /\ pc' = "start"
            /\ UNCHANGED <<reportedErr, exitStatus>>
       ELSE /\ reportedErr' = openErr'
            /\ pc' = FailPc
            /\ exitStatus' = FailStatus
    /\ UNCHANGED <<variant, devices, numDevices, thr5CardIndex,
                   useAlsaDeviceString, device, deviceCandidates, d, c,
                   alsaDeviceString, appVars, lifeVars, cbVars, regVars>>
    /\ UNCHANGED streamActive
    /\ released' = ReleasedAfter(pc')

\* the channel count the generic branch asks for
GenericChannels(maxIn) ==
    IF variant = "gui" /\ maxIn < NUM_CHANNELS THEN maxIn ELSE NUM_CHANNELS

\* no card index: one Pa_OpenStream on the selected device
OpenGeneric ==
    /\ pc = "open_generic"
    /\ \E err \in OpenResults(Len(attempts) + 1) :
        LET selectedDeviceInfo == Pa_GetDeviceInfo(device)
            params == [device |-> device,
                       deviceString |-> NoString,
                       channelCount |-> GenericChannels(selectedDeviceInfo.maxInputChannels),
                       suggestedLatency |-> selectedDeviceInfo.defaultLowInputLatency]
        IN /\ inputParameters' = params
           /\ inputChannels' =
                IF variant = "gui" /\ selectedDeviceInfo.maxInputChannels < NUM_CHANNELS
                THEN RecordedChannels(selectedDeviceInfo.maxInputChannels)
                ELSE inputChannels
           /\ openErr' = err
           /\ attempts' = Append(attempts, [params |-> params, result |-> err])
           /\ IF err = paNoError
              THEN /\ stream' = <<params>>
                   /\ pc' = "start"
                   /\ UNCHANGED <<reportedErr, exitStatus>>
              ELSE /\ reportedErr' = err
                   /\ pc' = FailPc
                   /\ exitStatus' = FailStatus
                   /\ UNCHANGED stream
    /\ UNCHANGED <<variant, devices, numDevices, thr5CardIndex,
                   useAlsaDeviceString, device, deviceCandidates, d, c, opened,
                   alsaDeviceString, appVars, lifeVars, cbVars, regVars>>
    /\ UNCHANGED streamActive
    /\ released' = ReleasedAfter(pc')

\* Pa_StartStream
StartStream ==
    /\ pc = "start"
    /\ \E started \in BOOLEAN :
        IF started
        THEN /\ pc' = "running"
             /\ streamActive' = TRUE
             /\ UNCHANGED <<stream, exitStatus, released>>
        ELSE /\ pc' = FailPc
             /\ exitStatus' = FailStatus
             /\ stream' = IF variant = "gui" THEN <<>> ELSE stream
             /\ released' = IF variant = "gui"
                             THEN released \o <<"stream", "library">>
                             ELSE released
             /\ UNCHANGED streamActive
    /\ UNCHANGED <<variant, devices, numDevices, thr5CardIndex,
                   useAlsaDeviceString, device, deviceCandidates, d, c, opened,
                   openErr, inputParameters, alsaDeviceString, inputChannels,
                   attempts, reportedErr, appVars, lifeVars, cbVars, regVars>>

\* the end of the session: Pa_StopStream, Pa_CloseStream, Pa_Terminate
FinishSession ==
    /\ pc = "running"
    /\ stream' = <<>>
    /\ streamActive' = FALSE
    /\ released' = released \o ReleasesOf(TeardownOrder)
    /\ pc' = "finished"
    /\ exitStatus' = IF variant = "cli" THEN "EXIT_SUCCESS" ELSE "thread_returned"
    /\ UNCHANGED <<variant, devices, numDevices, thr5CardIndex,
                   useAlsaDeviceString, device, deviceCandidates, d, c, opened,
                   openErr, inputParameters, alsaDeviceString, inputChannels,
                   attempts, reportedErr, appVars, lifeVars, cbVars, regVars>>

Next ==
    \/ GetDeviceCount
    \/ ResolveDevice
    \/ BuildCandidates
    \/ TryAlsaOpen
    \/ PulseFallback
    \/ OpenGeneric
    \/ StartStream
    \/ FinishSession

Spec == Init /\ [][Next]_vars

----------------------------------------------------------------------------
(* The running GUI session: streamCallback calls App::updateAudioData on   *)
(* the audio callback thread, the refresh timer calls App::refreshPlots on *)
(* the GUI thread. Frames are numbered 1, 2, ...; a buffer holds the       *)
(* number of the frame it was filled from (0: the App's initial data).     *)

\* a session of variant v that the negotiation has brought to its steady
\* state with ch channels: card 0, plughw:0,0, the stereo attempt refused
\* when ch is 1
Negotiated(v, ch) ==
    LET params(n) == [device |-> paUseHostApiSpecificDeviceSpecification,
                      deviceString |-> DeviceCandidates(0)[1],
                      channelCount |-> n,
                      suggestedLatency |-> AlsaLatencyMs]
        refused == CHOOSE r \in OpenResults(1) : r # paNoError
    IN /\ variant = v
       /\ pc = "running"
       /\ devices = <<PaDeviceInfo([name |-> S_USB, maxInputChannels |-> 2], 1)>>
       /\ numDevices = 1
       /\ thr5CardIndex = 0
       /\ useAlsaDeviceString = TRUE
       /\ device = paNoDevice
       /\ deviceCandidates = DeviceCandidates(0)
       /\ d = 1
       /\ c = IF ch = NUM_CHANNELS THEN 1 ELSE 2
       /\ opened = TRUE
       /\ openErr = paNoError
       /\ inputParameters = params(ch)
       /\ alsaDeviceString = DeviceCandidates(0)[1]
       /\ inputChannels = ch
       /\ stream = <<params(ch)>>
       /\ attempts = IF ch = NUM_CHANNELS
                     THEN <<[params |-> params(NUM_CHANNELS), result |-> paNoError]>>
                     ELSE <<[params |-> params(NUM_CHANNELS), result |-> refused],
                            [params |-> params(ch), result |-> paNoError]>>
       /\ reportedErr = paNoError
       /\ exitStatus = "none"
       /\ LifeInit /\ Acquired
       /\ streamActive = TRUE

\* a GUI session the negotiation has brought to its steady state
RunningSession == Negotiated("gui", NUM_CHANNELS)

InitHandoff == RunningSession /\ AppInit /\ CbIdle /\ RegIdle

CanLock_NoMutex == TRUE

\* QMutexLocker locker(&dataMutex) can take the mutex
CanLock == dataMutex = "free"

Abs(v) == IF v < 0 THEN 0 - v ELSE v

\* int fftSize = size / 2, taken as the whole of size
FftSize_Full(size) == size

\* int fftSize = size / 2
FftSize(size) == size \div 2

\* the ratio whose 20 * log10 updateAudioData stores for the transform value
\* v: abs(v) / size, and 1/10000 where that is below -80 dB
MagnitudeRatio(v, size) ==
    IF Abs(v) * 10000 < size
    THEN [num |-> 1, den |-> 10000]
    ELSE [num |-> Abs(v), den |-> size]

\* the frame buffers of the variant
FrameBuffers ==
    IF variant = "cli" THEN {"in", "out"} ELSE {"in", "out", "filtered", "filterHistory"}

BuffersFreed == \E i \in 1..Len(released) : released[i] \in FrameBuffers

\* the audio library delivers a buffer to the started stream: streamCallback
\* works on the frame buffers; where there is an App it calls
\* g_app->updateAudioData, and in any case it returns 0
Callback ==
    /\ streamActive
    /\ wpc = "idle"
    /\ nframes < MaxFrames
    /\ nframes' = nframes + 1
    /\ wframe' = nframes + 1
    /\ staleAccess' = (staleAccess \/ BuffersFreed)
    /\ wpc' = IF variant = "gui" /\ g_app # "nullptr" THEN "lock" ELSE "idle"
    /\ UNCHANGED <<negVars, streamActive, released, shouldStop, g_app, mpc, step,
                   acquired, sleepsAfterStop, polledBy, cbVars, regVars,
                   dataMutex, dataReady, currentSampleRate, amplitudeBuffer, amplitudeValues,
                   magnitudeBuffer, magnitudeValues, rpc, plotTime, plotFreq, plotRate, nreads,
                   published, rendered, reads, replots>>

\* updateAudioData: QMutexLocker locker(&dataMutex)
WriterLock ==
    /\ wpc = "lock"
    /\ CanLock
    /\ dataMutex' = "writer"
    /\ wpc' = "rate"
    /\ UNCHANGED <<negVars, sesVars, cbVars, regVars, dataReady, currentSampleRate, amplitudeBuffer, amplitudeValues,
                   magnitudeBuffer, magnitudeValues, wframe, rpc, plotTime, plotFreq, plotRate,
                   nframes, nreads, published, rendered, reads, replots>>

\* updateAudioData: currentSampleRate = sampleRate
WriterRate ==
    /\ wpc = "rate"
    /\ currentSampleRate' = SAMPLE_RATE
    /\ wpc' = "time"
    /\ UNCHANGED <<negVars, sesVars, cbVars, regVars, dataMutex, dataReady, amplitudeBuffer, amplitudeValues, magnitudeBuffer, magnitudeValues,
                   wframe, rpc, plotTime, plotFreq, plotRate, nframes, nreads,
                   published, rendered, reads, replots>>

WriterTime_KeepPending ==
    /\ wpc = "time"
    /\ amplitudeBuffer' = IF dataReady THEN amplitudeBuffer ELSE wframe
    /\ amplitudeValues' = IF dataReady THEN amplitudeValues ELSE filtered
    /\ wpc' = "freq"
    /\ UNCHANGED <<negVars, sesVars, cbVars, regVars, dataMutex, dataReady, currentSampleRate, magnitudeBuffer, magnitudeValues,
                   wframe, rpc, plotTime, plotFreq, plotRate, nframes, nreads,
                   published, rendered, reads, replots>>

\* updateAudioData: the copy into timeBuffer and amplitudeBuffer
WriterTime ==
    /\ wpc = "time"
    /\ amplitudeBuffer' = wframe
    /\ amplitudeValues' = [i \in 1..Len(filtered) |-> filtered[i]]
    /\ wpc' = "freq"
    /\ UNCHANGED <<negVars, sesVars, cbVars, regVars, dataMutex, dataReady, currentSampleRate, magnitudeBuffer, magnitudeValues,
                   wframe, rpc, plotTime, plotFreq, plotRate, nframes, nreads,
                   published, rendered, reads, replots>>

\* updateAudioData: the copy into freqBuffer and magnitudeBuffer
WriterFreq ==
    /\ wpc = "freq"
    /\ magnitudeBuffer' = wframe
    /\ magnitudeValues' = [i \in 1..FftSize(Len(out)) |->
                               MagnitudeRatio(out[i], Len(out))]
    /\ wpc' = "ready"
    /\ UNCHANGED <<negVars, sesVars, cbVars, regVars, dataMutex, dataReady, currentSampleRate, amplitudeBuffer, amplitudeValues,
                   wframe, rpc, plotTime, plotFreq, plotRate, nframes, nreads,
                   published, rendered, reads, replots>>

\* updateAudioData: dataReady = true
WriterReady ==
    /\ wpc = "ready"
    /\ dataReady' = TRUE
    /\ published' = Append(published, wframe)
    /\ wpc' = "unlock"
    /\ UNCHANGED <<negVars, sesVars, cbVars, regVars, dataMutex, currentSampleRate, amplitudeBuffer, amplitudeValues,
                   magnitudeBuffer, magnitudeValues, wframe, rpc, plotTime, plotFreq, plotRate,
                   nframes, nreads, rendered, reads, replots>>

\* updateAudioData returns: the locker releases the mutex
WriterUnlock ==
    /\ wpc = "unlock"
    /\ dataMutex' = "free"
    /\ wpc' = "idle"
    /\ UNCHANGED <<negVars, sesVars, cbVars, regVars, dataReady, currentSampleRate, amplitudeBuffer, amplitudeValues,
                   magnitudeBuffer, magnitudeValues, wframe, rpc, plotTime, plotFreq, plotRate,
                   nframes, nreads, published, rendered, reads, replots>>

\* refreshTimer's timeout: refreshPlots is called
TimerTick ==
    /\ rpc = "idle"
    /\ nreads < MaxReads
    /\ nreads' = nreads + 1
    /\ rpc' = "lock"
    /\ UNCHANGED <<negVars, sesVars, cbVars, regVars, dataMutex, dataReady, currentSampleRate, amplitudeBuffer, amplitudeValues,
                   magnitudeBuffer, magnitudeValues, wpc, wframe, plotTime, plotFreq, plotRate,
                   nframes, published, rendered, reads, replots>>

\* refreshPlots: QMutexLocker locker(&dataMutex)
ReaderLock ==
    /\ rpc = "lock"
    /\ CanLock
    /\ dataMutex' = "reader"
    /\ rpc' = "check"
    /\ UNCHANGED <<negVars, sesVars, cbVars, regVars, dataReady, currentSampleRate, amplitudeBuffer, amplitudeValues,
                   magnitudeBuffer, magnitudeValues, wpc, wframe, plotTime, plotFreq, plotRate,
                   nframes, nreads, published, rendered, reads, replots>>

\* refreshPlots: if (!dataReady) return
ReaderCheck ==
    /\ rpc = "check"
    /\ reads' = Append(reads, [ready |-> dataReady,
                                 newest |-> IF published = <<>> THEN 0
                                            ELSE published[Len(published)],
                                 shown |-> plotTime])
    /\ rpc' = IF dataReady THEN "time" ELSE "unlock"
    /\ UNCHANGED <<negVars, sesVars, cbVars, regVars, dataMutex, dataReady, currentSampleRate, amplitudeBuffer, amplitudeValues,
                   magnitudeBuffer, magnitudeValues, wpc, wframe, plotTime, plotFreq, plotRate,
                   nframes, nreads, published, rendered, replots>>

\* refreshPlots: the time domain plot's setData, ranges and replot
ReaderTime ==
    /\ rpc = "time"
    /\ plotTime' = amplitudeBuffer
    /\ plotRate' = currentSampleRate
    /\ replots' = replots + 1
    /\ rpc' = "freq"
    /\ UNCHANGED <<negVars, sesVars, cbVars, regVars, dataMutex, dataReady, currentSampleRate, amplitudeBuffer, amplitudeValues,
                   magnitudeBuffer, magnitudeValues, wpc, wframe, plotFreq, nframes, nreads,
                   published, rendered, reads>>

\* refreshPlots: the frequency domain plot's setData and replot
ReaderFreq ==
    /\ rpc = "freq"
    /\ plotFreq' = magnitudeBuffer
    /\ replots' = replots + 1
    /\ rpc' = "clear"
    /\ UNCHANGED <<negVars, sesVars, cbVars, regVars, dataMutex, dataReady, currentSampleRate, amplitudeBuffer, amplitudeValues,
                   magnitudeBuffer, magnitudeValues, wpc, wframe, plotTime, plotRate, nframes, nreads,
                   published, rendered, reads>>

ClearedReady_Kept == dataReady

\* the value refreshPlots leaves in dataReady
ClearedReady == FALSE

\* refreshPlots: dataReady = false
ReaderClear ==
    /\ rpc = "clear"
    /\ dataReady' = ClearedReady
    /\ rendered' = Append(rendered, <<plotTime, plotFreq>>)
    /\ rpc' = "unlock"
    /\ UNCHANGED <<negVars, sesVars, cbVars, regVars, dataMutex, currentSampleRate, amplitudeBuffer, amplitudeValues,
                   magnitudeBuffer, magnitudeValues, wpc, wframe, plotTime, plotFreq, plotRate,
                   nframes, nreads, published, reads, replots>>

\* refreshPlots returns: the locker releases the mutex
ReaderUnlock ==
    /\ rpc = "unlock"
    /\ dataMutex' = "free"
    /\ rpc' = "idle"
    /\ UNCHANGED <<negVars, sesVars, cbVars, regVars, dataReady, currentSampleRate, amplitudeBuffer, amplitudeValues,
                   magnitudeBuffer, magnitudeValues, wpc, wframe, plotTime, plotFreq, plotRate,
                   nframes, nreads, published, rendered, reads, replots>>

NextHandoff ==
    \/ Callback
    \/ WriterLock
    \/ WriterRate
    \/ WriterTime
    \/ WriterFreq
    \/ WriterReady
    \/ WriterUnlock
    \/ TimerTick
    \/ ReaderLock
    \/ ReaderCheck
    \/ ReaderTime
    \/ ReaderFreq
    \/ ReaderClear
    \/ ReaderUnlock

SpecHandoff == InitHandoff /\ [][NextHandoff]_vars

----------------------------------------------------------------------------
(* The whole capture session: the acquisitions, the negotiation above, the *)
(* wait for the end (Pa_Sleep in the CLI variant, the loop on shouldStop   *)
(* in the GUI variant), the teardown; beside it the GUI variant's main     *)
(* thread and the audio callback.                                          *)

\* PortAudio's device table in the sessions followed here
SessionDeviceTables ==
    {<<>>, <<PaDeviceInfo([name |-> S_USB, maxInputChannels |-> 2], 1)>>}

InitSession ==
    /\ variant \in {"cli", "gui"}
    /\ pc = "acquire"
    /\ devices \in SessionDeviceTables
    /\ numDevices \in (IF devices = <<>> THEN {-1, 0} ELSE {Len(devices)})
    /\ NegLocals
    /\ AppInit
    /\ LifeInit
    /\ step = 1
    /\ acquired = <<>>
    /\ CbIdle
    /\ RegIdle

\* Pa_Initialize with checkErr, the mallocs of spectroData and its buffers,
\* fftw_plan_r2r_1d: one acquisition per step
Acquire ==
    /\ pc = "acquire"
    /\ \E failed \in (IF AcquisitionOrder[step] = "library" THEN BOOLEAN ELSE {FALSE}) :
        IF failed
        THEN /\ pc' = "exited"
             /\ exitStatus' = "EXIT_FAILURE"
             /\ UNCHANGED <<acquired, step>>
        ELSE /\ acquired' = Append(acquired, AcquisitionOrder[step])
             /\ IF step = Len(AcquisitionOrder)
                THEN pc' = "enumerate" /\ step' = 0
                ELSE pc' = "acquire" /\ step' = step + 1
             /\ UNCHANGED exitStatus
    /\ UNCHANGED <<variant, devices, numDevices, thr5CardIndex,
                   useAlsaDeviceString, device, deviceCandidates, d, c, opened,
                   openErr, inputParameters, alsaDeviceString, inputChannels, stream,
                   attempts, reportedErr, appVars, streamActive, released,
                   shouldStop, g_app, mpc, sleepsAfterStop, polledBy, staleAccess,
                   cbVars, regVars>>

\* the fields of negVars that the end of the session leaves alone
negKept == <<variant, devices, numDevices, thr5CardIndex, useAlsaDeviceString,
             device, deviceCandidates, d, c, opened, openErr, inputParameters,
             alsaDeviceString, inputChannels, attempts, reportedErr>>

\* a session that goes back to the device resolution when its capture ends
AfterCapture_Renegotiate == "resolve"

\* what follows the wait of the running session: Pa_StopStream and the rest
\* of the teardown
AfterCapture == "teardown"

\* CLI variant: Pa_Sleep(30 * 1000) returns
CliSleep ==
    /\ pc = "running"
    /\ variant = "cli"
    /\ pc' = AfterCapture
    /\ step' = 1
    /\ UNCHANGED <<negKept, stream, exitStatus, appVars, streamActive, released,
                   shouldStop, g_app, mpc, acquired, sleepsAfterStop, polledBy,
                   staleAccess, cbVars, regVars>>

LoopContinues_FlagIgnored == g_app # "nullptr"

\* the condition of the GUI variant's wait loop
LoopContinues == g_app # "nullptr" /\ ~shouldStop

\* GUI variant: one test of while (g_app != nullptr && !g_app->shouldStop)
ControlLoop ==
    /\ pc = "running"
    /\ variant = "gui"
    /\ polledBy' = polledBy \cup {"capture thread"}
    /\ IF LoopContinues
       THEN pc' = "sleeping" /\ UNCHANGED step
       ELSE pc' = AfterCapture /\ step' = 1
    /\ UNCHANGED <<negKept, stream, exitStatus, appVars, streamActive, released,
                   shouldStop, g_app, mpc, acquired, sleepsAfterStop, staleAccess,
                   cbVars, regVars>>

\* GUI variant: Pa_Sleep(100) returns
SleepDone ==
    /\ pc = "sleeping"
    /\ pc' = "running"
    /\ sleepsAfterStop' = IF shouldStop /\ sleepsAfterStop < MaxSleeps
                          THEN sleepsAfterStop + 1
                          ELSE sleepsAfterStop
    /\ UNCHANGED <<negKept, stream, exitStatus, appVars, streamActive, released,
                   shouldStop, g_app, mpc, step, acquired, polledBy, staleAccess,
                   cbVars, regVars>>

\* one call of the teardown. Pa_StopStream and Pa_CloseStream return when the
\* callback in progress has returned; a failed Pa_StopStream leaves the
\* stream started, Pa_CloseStream ends it in any case. The CLI variant passes
\* the PortAudio results to checkErr, the GUI variant only prints them.
Teardown ==
    /\ pc = "teardown"
    /\ LET op == TeardownOrder[step]
       IN /\ op \in {"stop", "close"} /\ streamActive => wpc = "idle"
          /\ \E failed \in (IF op \in {"stop", "close", "library"}
                            THEN BOOLEAN ELSE {FALSE}) :
                /\ streamActive' = IF op = "close" \/ (op = "stop" /\ ~failed)
                                   THEN FALSE ELSE streamActive
                /\ stream' = IF op = "close" THEN <<>> ELSE stream
                /\ released' = released \o ReleasedBy(op)
                /\ IF failed /\ variant = "cli"
                   THEN /\ pc' = "exited"
                        /\ exitStatus' = "EXIT_FAILURE"
                        /\ UNCHANGED step
                   ELSE IF step = Len(TeardownOrder)
                   THEN /\ pc' = "finished"
                        /\ exitStatus' = IF variant = "cli" THEN "EXIT_SUCCESS"
                                         ELSE "thread_returned"
                        /\ UNCHANGED step
                   ELSE /\ step' = step + 1
                        /\ UNCHANGED <<pc, exitStatus>>
    /\ UNCHANGED <<negKept, appVars, shouldStop, g_app, mpc, acquired,
                   sleepsAfterStop, polledBy, staleAccess, cbVars, regVars>>

\* App::closeEvent: the window is closed
CloseEvent ==
    /\ mpc = "exec"
    /\ shouldStop' = TRUE
    /\ mpc' = "closed"
    /\ UNCHANGED <<negVars, appVars, streamActive, released, g_app, step, acquired,
                   sleepsAfterStop, polledBy, staleAccess, cbVars, regVars>>

\* main: qapp.exec() returns
ExecReturns ==
    /\ mpc \in {"exec", "closed"}
    /\ mpc' = "signal"
    /\ UNCHANGED <<negVars, appVars, streamActive, released, shouldStop, g_app,
                   step, acquired, sleepsAfterStop, polledBy, staleAccess, cbVars,
                   regVars>>

\* main: app.shouldStop = true
SignalStop ==
    /\ mpc = "signal"
    /\ shouldStop' = TRUE
    /\ mpc' = "join"
    /\ UNCHANGED <<negVars, appVars, streamActive, released, g_app, step, acquired,
                   sleepsAfterStop, polledBy, staleAccess, cbVars, regVars>>

\* a main thread that does not wait for the capture thread
CaptureThreadEnded_NoWait == pc \in {"finished", "returned", "running", "sleeping", "teardown"}

\* audioThreadFunc has returned, at the end of its teardown or at an early
\* failure
CaptureThreadEnded == pc \in {"finished", "returned"}

\* main: audioThread.join() returns, the capture thread having returned
JoinThread ==
    /\ mpc = "join"
    /\ CaptureThreadEnded
    /\ mpc' = "clear"
    /\ UNCHANGED <<negVars, appVars, streamActive, released, shouldStop, g_app,
                   step, acquired, sleepsAfterStop, polledBy, staleAccess, cbVars,
                   regVars>>

\* main: g_app = nullptr, and main returns
ClearApp ==
    /\ mpc = "clear"
    /\ g_app' = "nullptr"
    /\ mpc' = "done"
    /\ UNCHANGED <<negVars, appVars, streamActive, released, shouldStop, step,
                   acquired, sleepsAfterStop, polledBy, staleAccess, cbVars, regVars>>

\* the steps of a callback that is inside updateAudioData
InUpdateAudioData ==
    \/ WriterLock
    \/ WriterRate
    \/ WriterTime
    \/ WriterFreq
    \/ WriterReady
    \/ WriterUnlock

NextSession ==
    \/ Acquire
    \/ GetDeviceCount
    \/ ResolveDevice
    \/ BuildCandidates
    \/ TryAlsaOpen
    \/ PulseFallback
    \/ OpenGeneric
    \/ StartStream
    \/ CliSleep
    \/ ControlLoop
    \/ SleepDone
    \/ Teardown
    \/ Callback
    \/ InUpdateAudioData
    \/ CloseEvent
    \/ ExecReturns
    \/ SignalStop
    \/ JoinThread
    \/ ClearApp

SpecSession == InitSession /\ [][NextSession]_vars

\* the capture thread and the callback thread are scheduled, and the calls
\* into PortAudio return
SpecSessionFair ==
    /\ SpecSession
    /\ WF_vars(ControlLoop)
    /\ WF_vars(SleepDone)
    /\ WF_vars(Teardown)
    /\ WF_vars(InUpdateAudioData)

----------------------------------------------------------------------------
(* getThr5AlsaCardIndex: the scan of /proc/asound/cards, then of the       *)
(* usbid files of /proc/asound/card<N>, and the choice of the path that    *)
(* follows it in main / audioThreadFunc                                    *)

IsSpace(ch) == ch \in {" ", "\n"}

IsDigit(ch) == \E i \in 1..Len(Digit) : Digit[i] = ch

DigitValue(ch) == (CHOOSE i \in 1..Len(Digit) : Digit[i] = ch) - 1

RECURSIVE SkipSpaces(_, _)
SkipSpaces(s, i) == IF i <= Len(s) /\ IsSpace(s[i]) THEN SkipSpaces(s, i + 1) ELSE i

RECURSIVE ReadDigits(_, _, _)
ReadDigits(s, i, acc) ==
    IF i <= Len(s) /\ IsDigit(s[i])
    THEN ReadDigits(s, i + 1, 10 * acc + DigitValue(s[i]))
    ELSE acc

\* scanf's %d at position i of s: white space, an optional sign, digits
ScanInt(s, i) ==
    LET j == SkipSpaces(s, i)
        signed == j <= Len(s) /\ s[j] \in {"-", "+"}
        k == IF signed THEN j + 1 ELSE j
    IN IF k <= Len(s) /\ IsDigit(s[k])
       THEN [count |-> 1,
             value |-> IF signed /\ s[j] = "-" THEN 0 - ReadDigits(s, k, 0)
                       ELSE ReadDigits(s, k, 0)]
       ELSE [count |-> 0, value |-> -1]

\* the first n characters of a C string
Strn(s, n) == SubSeq(s, 1, IF Len(s) < n THEN Len(s) ELSE n)

\* strncmp(a, b, n) == 0
StrncmpEqual(a, b, n) == Strn(a, n) = Strn(b, n)

\* sscanf(line, " %d", &parsedIndex)
SscanfIndex(line) == ScanInt(line, 1)

\* sscanf(d_name, "card%d", &parsedIndex)
SscanfCardName(name) ==
    IF Len(name) >= Len(S_card) /\ SubSeq(name, 1, Len(S_card)) = S_card
    THEN ScanInt(name, Len(S_card) + 1)
    ELSE [count |-> 0, value |-> -1]

\* the test of a registry line for the names looked for
LineNamesThr5(line) == containsIgnoreCase(line, S_THR5) \/ containsIgnoreCase(line, S_Yamaha)

Line_0_THR5 == <<" ","0"," ","[","T","H","R","5","]",":"," ","U","S","B","-","A","u","d","i","o">>
Line_1_PCH == <<" ","1"," ","[","P","C","H","]",":"," ","H","D","A","-","I","n","t","e","l">>
Line_2_yamaha == <<" ","2"," ","[","U","S","B","]",":"," ","y","a","m","a","h","a"," ","t","h","r","5">>
Line_cont_Yamaha == <<" "," "," "," "," ","Y","a","m","a","h","a"," ","T","H","R","5"," ","a","t"," ","u","s","b">>
Line_cont_PCH == <<" "," "," "," "," ","H","D","A"," ","I","n","t","e","l"," ","P","C","H">>

\* lines that /proc/asound/cards can hold
CardLines == {Line_0_THR5, Line_1_PCH, Line_2_yamaha, Line_cont_Yamaha, Line_cont_PCH}

RECURSIVE SeqsUpTo(_, _)
SeqsUpTo(S, n) ==
    IF n = 0 THEN {<<>>}
    ELSE LET shorter == SeqsUpTo(S, n - 1)
         IN shorter \cup { Append(q, x) : q \in shorter, x \in S }

\* contents of /proc/asound/cards (none: the file is missing or empty)
CardRegistries == SeqsUpTo(CardLines, MaxLines)

S_cards == <<"c","a","r","d","s">>
S_card0 == <<"c","a","r","d","0">>
S_card1 == <<"c","a","r","d","1">>
S_usbid_other == <<"0","4","6","d",":","0","8","2","5","\n">>
S_usbid_THR5_line == <<"0","4","9","9",":","1","5","0","6","\n">>
S_usbid_longer == <<"0","4","9","9",":","1","5","0","6","1","\n">>
S_usbid_inner == <<"1","0","4","9","9",":","1","5","0","6","\n">>

\* entries of /proc/asound: the cards file, and card directories with the
\* first line of their usbid file (none: no such file)
DirEntries ==
    {[name |-> S_cards, usbid |-> NoString]}
        \cup [name : {S_card0, S_card1}, usbid : {NoString, S_usbid_THR5_line, S_usbid_other}]

\* PortAudio devices in the sessions whose resolution is followed
ResolverShapes ==
    [name : {S_THR5, S_Yamaha, S_USB, S_default}, maxInputChannels : {NUM_CHANNELS}]
        \cup {[name |-> S_default, maxInputChannels |-> 0]}

ResolverDeviceTables ==
    { t \in DeviceTables :
        /\ t # <<>>
        /\ \A i \in 1..Len(t) :
            [name |-> t[i].name, maxInputChannels |-> t[i].maxInputChannels]
                \in ResolverShapes }

InitResolver ==
    /\ variant \in {"cli", "gui"}
    /\ pc = "cards"
    /\ devices \in ResolverDeviceTables
    /\ numDevices = Len(devices)
    /\ NegLocals
    /\ AppInit
    /\ LifeInit
    /\ Acquired
    /\ CbIdle
    /\ cards \in CardRegistries
    /\ lineNo = 1
    /\ currentCardIndex = -1
    /\ cardIndex = -1
    /\ asoundDir = <<>>
    /\ result = -1
    /\ matchText = <<>>
    /\ matchPattern = <<>>
    /\ matched = "none"

\* currentCardIndex = parsedIndex on every line, indexed or not
CurrentIndex_NoCarry(parsed, prev) == IF parsed.count = 1 THEN parsed.value ELSE -1

\* if (sscanf(line, " %d", &parsedIndex) == 1) currentCardIndex = parsedIndex
CurrentIndex(parsed, prev) == IF parsed.count = 1 THEN parsed.value ELSE prev

\* one turn of the loop over the lines of /proc/asound/cards, or its end
ScanCardsLine ==
    /\ pc = "cards"
    /\ IF lineNo > Len(cards)
       THEN /\ pc' = "usbid"
            /\ UNCHANGED <<lineNo, currentCardIndex, cardIndex, result>>
       ELSE LET line == cards[lineNo]
                parsed == SscanfIndex(line)
                current == CurrentIndex(parsed, currentCardIndex)
            IN /\ currentCardIndex' = current
               /\ IF LineNamesThr5(line) /\ IsCardIndex(current)
                  THEN /\ cardIndex' = current
                       /\ IF IsCardIndex(cardIndex')
                          THEN result' = cardIndex' /\ pc' = "choose"
                          ELSE result' = result /\ pc' = "usbid"
                       /\ UNCHANGED lineNo
                  ELSE /\ lineNo' = lineNo + 1
                       /\ UNCHANGED <<pc, cardIndex, result>>
    /\ UNCHANGED <<variant, devices, numDevices, thr5CardIndex, useAlsaDeviceString,
                   device, deviceCandidates, d, c, opened, openErr, inputParameters,
                   alsaDeviceString, inputChannels, stream, attempts, reportedErr,
                   exitStatus, appVars, sesVars, cbVars, cards, asoundDir, matchVars>>

UsbIdMatches_Contains(usbid) == Find(usbid, S_usbid_THR5)

\* the identity looked for in a usbid file:
\* strncmp(usbid, "0499:1506", 9) == 0
UsbIdMatches(usbid) == StrncmpEqual(usbid, S_usbid_THR5, Len(S_usbid_THR5))

\* one turn of the loop over readdir's entries, or its end, the directory
\* holding entries of this set
ScanUsbOver(entries) ==
    /\ pc = "usbid"
    /\ \/ /\ result' = -1
          /\ pc' = "choose"
          /\ UNCHANGED asoundDir
       \/ /\ Len(asoundDir) < MaxDirEntries
          /\ \E entry \in entries :
                /\ \A i \in 1..Len(asoundDir) : asoundDir[i].name # entry.name
                /\ asoundDir' = Append(asoundDir, entry)
                /\ LET parsed == SscanfCardName(entry.name)
                   IN IF /\ StrncmpEqual(entry.name, S_card, Len(S_card))
                         /\ parsed.count = 1
                         /\ parsed.value >= 0
                         /\ entry.usbid # NoString
                         /\ UsbIdMatches(entry.usbid)
                      THEN result' = parsed.value /\ pc' = "choose"
                      ELSE UNCHANGED <<result, pc>>
    /\ UNCHANGED <<variant, devices, numDevices, thr5CardIndex, useAlsaDeviceString,
                   device, deviceCandidates, d, c, opened, openErr, inputParameters,
                   alsaDeviceString, inputChannels, stream, attempts, reportedErr,
                   exitStatus, appVars, sesVars, cbVars, cards, lineNo,
                   currentCardIndex, cardIndex, matchVars>>

\* one turn of the loop over readdir's entries, or its end
ScanUsbEntry == ScanUsbOver(DirEntries)

\* getThr5AlsaCardIndex has returned: the choice of the path
ChooseFromScan ==
    /\ pc = "choose"
    /\ \E dflt \in DefaultInputDevices : ChoosePath(result, dflt)

NextResolver ==
    \/ ScanCardsLine
    \/ ScanUsbEntry
    \/ ChooseFromScan
    \/ BuildCandidates
    \/ OpenGeneric

SpecResolver == InitResolver /\ [][NextResolver]_vars

----------------------------------------------------------------------------
(* The usbid fallback alone: no registry, and usbid files of more kinds    *)

\* card directories whose usbid file holds the id followed by another
\* character, or after another character
OddDirEntries ==
    [name : {S_card0, S_card1}, usbid : {S_usbid_longer, S_usbid_inner}]

InitUsbId ==
    /\ InitResolver
    /\ cards = <<>>
    /\ devices = <<PaDeviceInfo([name |-> S_USB, maxInputChannels |-> NUM_CHANNELS], 1)>>

ScanUsbRecord == ScanUsbOver(DirEntries \cup OddDirEntries)

NextUsbId ==
    \/ ScanCardsLine
    \/ ScanUsbRecord
    \/ ChooseFromScan
    \/ BuildCandidates
    \/ OpenGeneric

SpecUsbId == InitUsbId /\ [][NextUsbId]_vars

----------------------------------------------------------------------------
(* containsIgnoreCase on its own                                           *)

\* texts and patterns it is called with: null, empty, the names and patterns
\* of the program in both cases, a registry line
MatchTexts ==
    {NullPtr, <<>>, S_THR5, ToLowerStr(S_THR5), S_Yamaha, S_USB, S_default,
     S_pulse, Line_0_THR5, Line_2_yamaha, Line_1_PCH}

MatchPatterns ==
    {NullPtr, <<>>, S_THR5, S_Yamaha, ToLowerStr(S_Yamaha), S_USB, S_pulse}

InitMatch ==
    /\ variant = "cli"
    /\ pc = "match"
    /\ devices = <<>>
    /\ numDevices = 0
    /\ NegLocals
    /\ AppInit
    /\ LifeInit
    /\ Acquired
    /\ CbIdle
    /\ cards = <<>>
    /\ lineNo = 1
    /\ currentCardIndex = -1
    /\ cardIndex = -1
    /\ asoundDir = <<>>
    /\ result = -1
    /\ matchText \in MatchTexts
    /\ matchPattern \in MatchPatterns
    /\ matched = "none"

\* the call and its return value
CallContainsIgnoreCase ==
    /\ pc = "match"
    /\ matched = "none"
    /\ matched' = IF containsIgnoreCase(matchText, matchPattern) THEN "true" ELSE "false"
    /\ UNCHANGED <<negVars, appVars, sesVars, cbVars, cards, lineNo,
                   currentCardIndex, cardIndex, asoundDir, result, matchText,
                   matchPattern>>

NextMatch == CallContainsIgnoreCase

SpecMatch == InitMatch /\ [][NextMatch]_vars

----------------------------------------------------------------------------
(* The callback's signal path: downmix, FIR filter (GUI), transform        *)

FramesPerCallback == 2 ^ FramesLog2

\* the values a sample takes
Samples == {0, 1}

\* the filters b is taken from: a moving sum, an alternating one, the
\* identity, and a negated delay by FilterTaps-1 samples
FilterCoefficients ==
    { [j \in 1..FilterTaps |-> 1],
      [j \in 1..FilterTaps |-> IF j % 2 = 1 THEN 1 ELSE -1],
      [j \in 1..FilterTaps |-> IF j = 1 THEN 1 ELSE 0],
      [j \in 1..FilterTaps |-> IF j = FilterTaps THEN -1 ELSE 0] }

\* the interleaved buffers PortAudio hands to the callback: framesPerBuffer
\* frames of ch samples each
InputBuffers(ch) == [1..(FramesPerCallback * ch) -> Samples]

\* frame i of the interleaved buffer, i = 0 .. framesPerBuffer-1
FrameOf(buf, i, ch) == SubSeq(buf, i * ch + 1, (i + 1) * ch)

\* channel 0 of every frame of an interleaved buffer
ChannelZero(buf, ch) == [i \in 1..FramesPerCallback |-> FrameOf(buf, i - 1, ch)[1]]

\* calloc(FILTER_ORDER, sizeof(double))
InitialHistory_Uninitialised == [j \in 1..FilterTaps |-> 1]

InitialHistory == [j \in 1..FilterTaps |-> 0]

RECURSIVE SumSeq(_)
SumSeq(s) == IF s = <<>> THEN 0 ELSE Head(s) + SumSeq(Tail(s))

\* in[i * callbackData->inputChannels], ignoring the stride
InputIndex_NoStride(i, ch) == i

\* in[i * callbackData->inputChannels]
InputIndex(i, ch) == i * ch

\* filterHistory[0] = in[i] with no shift of the older entries
ShiftIn_Overwrite(hist, x) == [j \in 1..FilterTaps |-> IF j = 1 THEN x ELSE hist[j]]

\* filterHistory[j] = filterHistory[j - 1] for j = FILTER_ORDER-1 .. 1, then
\* filterHistory[0] = in[i]
ShiftIn(hist, x) == [j \in 1..FilterTaps |-> IF j = 1 THEN x ELSE hist[j - 1]]

\* filteredSample += b[FILTER_ORDER - 1 - j] * filterHistory[j]
FilteredSample_Reversed(hist) ==
    SumSeq([j \in 1..FilterTaps |-> b_[FilterTaps + 1 - j] * hist[j]])

\* filteredSample += b[j] * filterHistory[j] for j = 0 .. FILTER_ORDER-1
FilteredSample(hist) == SumSeq([j \in 1..FilterTaps |-> b_[j] * hist[j]])

\* the loop over the samples of the frame: the history and the filtered
\* samples after xs has gone through the filter
RECURSIVE FirRun(_, _, _)
FirRun(hist, xs, ys) ==
    IF xs = <<>>
    THEN [history |-> hist, filtered |-> ys]
    ELSE LET h == ShiftIn(hist, Head(xs))
         IN FirRun(h, Tail(xs), Append(ys, FilteredSample(h)))

\* cos and sin of a multiple of a quarter turn
Cos4 == <<1, 0, -1, 0>>
Sin4 == <<0, 1, 0, -1>>

\* the angle 2 pi j k / n in quarter turns, n in {1, 2, 4}
QuarterTurns(j, k, n) == ((4 \div n) * j * k) % 4

\* fftw_plan_r2r_1d(n, in, out, FFTW_R2HC, ...): out[k] is the real part of
\* bin k for k = 0 .. n/2, out[n - k] the imaginary part of bin k for
\* 0 < k < n/2
R2HC(x) ==
    LET n == Len(x)
        re(k) == SumSeq([j \in 1..n |-> x[j] * Cos4[QuarterTurns(j - 1, k, n) + 1]])
        im(k) == 0 - SumSeq([j \in 1..n |-> x[j] * Sin4[QuarterTurns(j - 1, k, n) + 1]])
    IN [m \in 1..n |-> IF m - 1 <= n \div 2 THEN re(m - 1) ELSE im(n - (m - 1))]

\* the session is running; the filter's coefficients are whatever filt.h
\* holds, the buffers are allocated and not written yet, the history is
\* zeroed
InitCallback ==
    /\ \E v \in {"cli", "gui"}, ch \in 1..NUM_CHANNELS : Negotiated(v, ch)
    /\ AppInit
    /\ RegIdle
    /\ cbInput = <<>>
    /\ cbpc = "idle"
    /\ b_ \in (IF variant = "gui" THEN FilterCoefficients ELSE {<<>>})
    /\ in_ = <<>>
    /\ filtered = <<>>
    /\ filterHistory = (IF variant = "gui" THEN InitialHistory ELSE <<>>)
    /\ out = <<>>
    /\ readIndices = {}
    /\ ncallbacks = 0
    /\ before = <<>>
    /\ startIndex = 0
    /\ spectroSize = 0
    /\ dispSize = 0
    /\ column = 0
    /\ sampled = <<>>
    /\ freq = 0
    /\ glyph = -1
    /\ statusFlags = "none"
    /\ cbResults = <<>>

dispVars == <<startIndex, spectroSize, dispSize, column, sampled, freq, glyph>>

dspVars == <<cbInput, b_, in_, filtered, filterHistory, out, readIndices,
             ncallbacks, before, statusFlags>>

\* the status PortAudio reports with a buffer: nothing, or input lost or
\* made up around it
StatusFlags == {"none", "paInputUnderflow", "paInputOverflow"}

\* a callback that stops the stream (paAbort) when a flag is set
CallbackResult_AbortOnFlags(flags) == IF flags = "none" THEN 0 ELSE 2

\* (void)statusFlags; ... return 0;
CallbackResult(flags) == 0

\* PortAudio calls streamCallback with the next buffer and one of the given
\* status flags
CallbackEntryOver(flagset) ==
    /\ streamActive
    /\ cbpc = "idle"
    /\ \E flags \in flagset : statusFlags' = flags
    /\ ncallbacks < MaxCallbacks
    /\ ncallbacks' = ncallbacks + 1
    /\ before' = IF ncallbacks = 0 THEN <<>> ELSE ChannelZero(cbInput, inputChannels)
    /\ \E buf \in InputBuffers(inputChannels) : cbInput' = buf
    /\ readIndices' = {}
    /\ cbpc' = "downmix"
    /\ UNCHANGED <<negVars, appVars, sesVars, regVars, dispVars,
                   b_, in_, filtered, filterHistory, out, cbResults>>

\* a callback of a stream that loses no input
CallbackEntry == CallbackEntryOver({"none"})

\* a callback with any status
CallbackEntryFlagged == CallbackEntryOver(StatusFlags)

\* for (i = 0; i < framesPerBuffer; i++) callbackData->in[i] = in[i * channels]
Downmix ==
    /\ cbpc = "downmix"
    /\ in_' = [i \in 1..FramesPerCallback |->
                  cbInput[InputIndex(i - 1, inputChannels) + 1]]
    /\ readIndices' = {InputIndex(i - 1, inputChannels) : i \in 1..FramesPerCallback}
    /\ cbpc' = IF variant = "gui" THEN "filter" ELSE "transform"
    /\ UNCHANGED <<negVars, appVars, sesVars, regVars, dispVars,
                   cbInput, ncallbacks, before, b_, filtered, filterHistory, out,
                   statusFlags, cbResults>>

\* the FIR filter over the frame, then the copy of filtered into in
Filter ==
    /\ cbpc = "filter"
    /\ LET run == FirRun(filterHistory, in_, <<>>)
       IN /\ filterHistory' = run.history
          /\ filtered' = run.filtered
          /\ in_' = run.filtered
    /\ cbpc' = "transform"
    /\ UNCHANGED <<negVars, appVars, sesVars, regVars, dispVars,
                   cbInput, ncallbacks, before, readIndices, b_, out,
                   statusFlags, cbResults>>

\* fftw_execute(callbackData->p)
Transform ==
    /\ cbpc = "transform"
    /\ out' = R2HC(in_)
    /\ cbpc' = "return"
    /\ UNCHANGED <<negVars, appVars, sesVars, regVars, dispVars,
                   cbInput, ncallbacks, before, readIndices, b_, in_, filtered,
                   filterHistory, statusFlags, cbResults>>

\* the frame is published and drawn, and the callback returns
CallbackReturn ==
    /\ cbpc = "return"
    /\ cbpc' = "idle"
    /\ cbResults' = Append(cbResults, CallbackResult(statusFlags))
    /\ UNCHANGED <<negVars, appVars, sesVars, regVars, dispVars, dspVars>>

NextCallback ==
    \/ CallbackEntry
    \/ Downmix
    \/ Filter
    \/ Transform
    \/ CallbackReturn

SpecCallback == InitCallback /\ [][NextCallback]_vars

\* the callbacks of a session on one channel, delivered with any status; the
\* GUI variant's filter is the alternating one
InitStatus ==
    /\ InitCallback
    /\ inputChannels = 1
    /\ b_ \in {<<>>, [j \in 1..FilterTaps |-> IF j % 2 = 1 THEN 1 ELSE -1]}

NextStatus ==
    \/ CallbackEntryFlagged
    \/ Downmix
    \/ Filter
    \/ Transform
    \/ CallbackReturn

SpecStatus == InitStatus /\ [][NextStatus]_vars

----------------------------------------------------------------------------
(* The GUI callback's publication of its frame, with the GUI thread's      *)
(* refreshes going on                                                      *)

\* a GUI session on one channel, its filter the alternating one
InitPublish ==
    /\ InitCallback
    /\ variant = "gui"
    /\ inputChannels = 1
    /\ b_ = [j \in 1..FilterTaps |-> IF j % 2 = 1 THEN 1 ELSE -1]

\* if (g_app != nullptr) g_app->updateAudioData(callbackData->filtered,
\* callbackData->out, FRAMES_PER_BUFFER, SAMPLE_RATE): the call
PublishCall ==
    /\ cbpc = "return"
    /\ g_app # "nullptr"
    /\ wpc = "idle"
    /\ wframe' = ncallbacks
    /\ nframes' = ncallbacks
    /\ wpc' = "lock"
    /\ cbpc' = "publishing"
    /\ UNCHANGED <<negVars, sesVars, regVars, dispVars, dspVars, cbResults,
                   dataMutex, dataReady, currentSampleRate, amplitudeBuffer,
                   magnitudeBuffer, amplitudeValues, magnitudeValues, rpc,
                   plotTime, plotFreq, plotRate, nreads, published, rendered,
                   reads, replots>>

\* updateAudioData has returned; the line is drawn and the callback returns
PublishReturn ==
    /\ cbpc = "publishing"
    /\ wpc = "idle"
    /\ cbpc' = "idle"
    /\ cbResults' = Append(cbResults, CallbackResult(statusFlags))
    /\ UNCHANGED <<negVars, appVars, sesVars, regVars, dispVars, dspVars>>

NextPublish ==
    \/ CallbackEntryFlagged
    \/ Downmix
    \/ Filter
    \/ Transform
    \/ PublishCall
    \/ WriterLock
    \/ WriterRate
    \/ WriterTime
    \/ WriterFreq
    \/ WriterReady
    \/ WriterUnlock
    \/ PublishReturn
    \/ TimerTick
    \/ ReaderLock
    \/ ReaderCheck
    \/ ReaderTime
    \/ ReaderFreq
    \/ ReaderClear
    \/ ReaderUnlock

SpecPublish == InitPublish /\ [][NextPublish]_vars

----------------------------------------------------------------------------
(* The callback's drawing of one spectrogram line                          *)

CeilDiv(a, n) == (a + n - 1) \div n

\* std::ceil(sampleRatio * SPECTRO_FREQ_START), sampleRatio being
\* FRAMES_PER_BUFFER / SAMPLE_RATE
StartIndexOf == CeilDiv(FRAMES_PER_BUFFER * SPECTRO_FREQ_START, SAMPLE_RATE)

\* min(std::ceil(sampleRatio * SPECTRO_FREQ_END), FRAMES_PER_BUFFER / 2.0)
\*   - startIndex
SpectroSizeOf ==
    LET top == CeilDiv(FRAMES_PER_BUFFER * SPECTRO_FREQ_END, SAMPLE_RATE)
        half == FRAMES_PER_BUFFER \div 2
    IN (IF top < half THEN top ELSE half) - StartIndexOf

\* the windows <<startIndex, spectroSize>> the drawing is followed on: the
\* program's, and others of the same shape
SpectroWindows ==
    {<<StartIndexOf, SpectroSizeOf>>, <<0, 0>>, <<0, 1>>, <<2, 7>>, <<3, 16>>,
     <<1, 255>>}

\* getTerminalColumns(): ws_col when stdout is a terminal of known width,
\* 100 otherwise
TerminalColumns == (1..MaxColumns) \cup {FallbackColumns}

\* floor(a * n / m) for 0 <= a, 0 <= n, 0 < m, the product not being formed:
\* quotient and remainder, n taken bit by bit
RECURSIVE MulDiv(_, _, _)
MulDiv(a, n, m) ==
    IF n = 0
    THEN [quot |-> 0, rem |-> 0]
    ELSE LET h == MulDiv(a, n \div 2, m)
             r == 2 * h.rem + (IF n % 2 = 1 THEN a % m ELSE 0)
             q == 2 * h.quot + (IF n % 2 = 1 THEN a \div m ELSE 0)
         IN [quot |-> q + r \div m, rem |-> r % m]

\* the numerator of std::pow(i / (double)dispSize, 4) over dispSize^4,
\* counted from the right edge
ProportionNumerator_Mirrored(i, D) == (D - i) ^ 4

\* the numerator of std::pow(i / (double)dispSize, 4) over dispSize^4
ProportionNumerator(i, D) == i ^ 4

\* the index of a loop that runs over i = 1 .. dispSize
BucketIndex_NextColumn(i, D, start, span) ==
    start + MulDiv(ProportionNumerator(i + 1, D), span, D ^ 4).quot

\* (int)(startIndex + proportion * spectroSize), in exact arithmetic
BucketIndex(i, D, start, span) ==
    start + MulDiv(ProportionNumerator(i, D), span, D ^ 4).quot

\* a callback of a running session is about to draw; startIndex and
\* spectroSize were set before the stream was opened
InitDisplay ==
    /\ \E v \in {"cli", "gui"} : Negotiated(v, NUM_CHANNELS)
    /\ AppInit
    /\ RegIdle
    /\ cbInput = <<>>
    /\ cbpc = "size"
    /\ b_ = <<>>
    /\ in_ = <<>>
    /\ filtered = <<>>
    /\ filterHistory = <<>>
    /\ out = <<>>
    /\ readIndices = {}
    /\ ncallbacks = 0
    /\ before = <<>>
    /\ \E w \in SpectroWindows : startIndex = w[1] /\ spectroSize = w[2]
    /\ dispSize = 0
    /\ column = 0
    /\ sampled = <<>>
    /\ freq = 0
    /\ glyph = -1
    /\ statusFlags = "none"
    /\ cbResults = <<>>

\* int dispSize = getTerminalColumns() - 1; if (dispSize < 10) dispSize = 10;
TerminalSize ==
    /\ cbpc = "size"
    /\ \E cols \in TerminalColumns :
          dispSize' = IF cols - 1 < MinDispSize THEN MinDispSize ELSE cols - 1
    /\ column' = 0
    /\ sampled' = <<>>
    /\ cbpc' = "draw"
    /\ UNCHANGED <<negVars, appVars, sesVars, regVars, dspVars, cbResults,
                   startIndex, spectroSize, freq, glyph>>

\* the values out holds at the index sampled, in units of 1/FreqResolution:
\* from below 0 to above 1
FreqValues == (0 - FreqResolution \div 4) .. (FreqResolution + FreqResolution \div 4)

\* freq <= k * 0.125
Below_Inclusive(v, k) == NumTiers * v <= k * FreqResolution

\* freq < k * 0.125
Below(v, k) == NumTiers * v < k * FreqResolution

\* if (freq < 0.125) ... else if (freq < 0.25) ... else if (freq < 0.875) ...
\* else ...: the tier of the first comparison that succeeds, the highest
\* when none does
RECURSIVE GlyphFrom(_, _)
GlyphFrom(v, k) ==
    IF k >= NumTiers THEN NumTiers - 1
    ELSE IF Below(v, k) THEN k - 1
    ELSE GlyphFrom(v, k + 1)

Glyph(v) == GlyphFrom(v, 1)

\* one turn of for (int i = 0; i < dispSize; i++): the element of out the
\* column shows, and the glyph printed for its value
DrawColumn ==
    /\ cbpc = "draw"
    /\ column < dispSize
    /\ sampled' = Append(sampled, BucketIndex(column, dispSize, startIndex, spectroSize))
    /\ \E v \in FreqValues :
          /\ freq' = v
          /\ glyph' = Glyph(v)
    /\ column' = column + 1
    /\ UNCHANGED <<negVars, appVars, sesVars, regVars, dspVars, cbResults,
                   startIndex, spectroSize, dispSize, cbpc>>

\* the loop ends; fflush(stdout); return 0
EndLine ==
    /\ cbpc = "draw"
    /\ column >= dispSize
    /\ cbpc' = "idle"
    /\ cbResults' = Append(cbResults, CallbackResult(statusFlags))
    /\ UNCHANGED <<negVars, appVars, sesVars, regVars, dspVars, dispVars>>

NextDisplay ==
    \/ TerminalSize
    \/ DrawColumn
    \/ EndLine

SpecDisplay == InitDisplay /\ [][NextDisplay]_vars

----------------------------------------------------------------------------
(* Stream negotiation: the properties checked                              *)

\* the card indices of the model, in decimal
DecimalOf(K) ==
    CASE K = 0 -> <<"0">>
      [] K = 2 -> <<"2">>
      [] K = 13 -> <<"1","3">>

\* plughw:K,0  hw:K,0  dsnoop:K,0  sysdefault:K,0  sysdefault:K
ExpectedCandidates(K) ==
    << <<"p","l","u","g","h","w",":">> \o DecimalOf(K) \o <<",","0">>,
       <<"h","w",":">> \o DecimalOf(K) \o <<",","0">>,
       <<"d","s","n","o","o","p",":">> \o DecimalOf(K) \o <<",","0">>,
       <<"s","y","s","d","e","f","a","u","l","t",":">> \o DecimalOf(K) \o <<",","0">>,
       <<"s","y","s","d","e","f","a","u","l","t",":">> \o DecimalOf(K) >>

IsDeviceStringAttempt(a) == a.params.device = paUseHostApiSpecificDeviceSpecification

Failed(a) == a.result # paNoError

\* the negotiation has ended, one way or the other
NegotiationOver == pc \in {"start", "running", "finished", "exited", "returned"}


Min2(a, b) == IF a < b THEN a ELSE b

\* C1: on the card path the i-th Pa_OpenStream call, i = 1..10, is on device
\* string number (i-1) div 2 of the five, in priority order, with 2 channels
\* when i is odd and 1 channel when i is even; a call on an enumerated device
\* (the shared-server fallback) is the 11th call only, made after ten failures.
C1_NegotiationOrder ==
    useAlsaDeviceString =>
        \A i \in 1..Len(attempts) :
            IF i <= 10
            THEN /\ IsDeviceStringAttempt(attempts[i])
                 /\ attempts[i].params.deviceString
                        = ExpectedCandidates(thr5CardIndex)[((i - 1) \div 2) + 1]
                 /\ attempts[i].params.channelCount = (IF i % 2 = 1 THEN 2 ELSE 1)
            ELSE /\ i = 11
                 /\ ~IsDeviceStringAttempt(attempts[i])
                 /\ \A j \in 1..10 : Failed(attempts[j])

C1_Witness ==
    /\ useAlsaDeviceString
    /\ Len(attempts) = 11
    /\ ~IsDeviceStringAttempt(attempts[11])

\* C2: once the candidates are built for card index K >= 0 there are exactly
\* five, they are plughw:K,0, hw:K,0, dsnoop:K,0, sysdefault:K,0, sysdefault:K
\* in this order, and each contains K in decimal.
C2_FiveCandidates ==
    (useAlsaDeviceString /\ pc # "candidates") =>
        /\ thr5CardIndex >= 0
        /\ Len(deviceCandidates) = 5
        /\ deviceCandidates = ExpectedCandidates(thr5CardIndex)
        /\ \A i \in 1..5 : Find(deviceCandidates[i], DecimalOf(thr5CardIndex))

C2_Witness ==
    /\ pc = "alsa_open"
    /\ thr5CardIndex = 13
    /\ deviceCandidates[5] = <<"s","y","s","d","e","f","a","u","l","t",":","1","3">>

dsnoop_2_0 == <<"d","s","n","o","o","p",":","2",",","0">>

\* card index 2, and the open that succeeded is dsnoop:2,0 with 1 channel
C3_Scenario ==
    /\ useAlsaDeviceString
    /\ thr5CardIndex = 2
    /\ NegotiationOver
    /\ attempts # <<>>
    /\ ~Failed(attempts[Len(attempts)])
    /\ attempts[Len(attempts)].params.deviceString = dsnoop_2_0
    /\ attempts[Len(attempts)].params.channelCount = 1

C3_Outcome ==
    /\ inputChannels = 1
    /\ alsaDeviceString = dsnoop_2_0
    /\ stream # <<>> => (stream[1].deviceString = dsnoop_2_0 /\ stream[1].channelCount = 1)
    /\ pc = "start" => stream # <<>>

\* plughw stereo, plughw mono, hw stereo, hw mono, dsnoop stereo, all failing
C3_PriorAttempts ==
    LET prior == SubSeq(attempts, 1, Len(attempts) - 1)
        what == [i \in 1..Len(prior) |->
                    <<prior[i].params.deviceString, prior[i].params.channelCount>>]
    IN /\ \A i \in 1..Len(prior) : Failed(prior[i])
       /\ what = << <<ExpectedCandidates(2)[1], 2>>, <<ExpectedCandidates(2)[1], 1>>,
                    <<ExpectedCandidates(2)[2], 2>>, <<ExpectedCandidates(2)[2], 1>>,
                    <<ExpectedCandidates(2)[3], 2>> >>

\* C3 as stated: in the scenario the negotiated channel count is 1, the device
\* string is dsnoop:2,0, and 6 failing combinations were attempted before.
C3_SixPriorAttempts ==
    C3_Scenario => (C3_Outcome /\ Len(attempts) - 1 = 6)

\* C3 amended: in the scenario the negotiated channel count is 1, the device
\* string is dsnoop:2,0, and exactly 5 failing combinations were attempted
\* before, in the order plughw stereo, plughw mono, hw stereo, hw mono, dsnoop
\* stereo.
C3_FivePriorAttempts ==
    C3_Scenario => (C3_Outcome /\ Len(attempts) - 1 = 5 /\ C3_PriorAttempts)

C3_Witness == C3_Scenario /\ pc = "running"

\* C4: at most 10 Pa_OpenStream calls are made on device strings, and a call
\* that succeeded is the last call of the session, whatever its kind.
C4_AtMostTenThenStop ==
    /\ Cardinality({ i \in 1..Len(attempts) : IsDeviceStringAttempt(attempts[i]) }) <= 10
    /\ \A i \in 1..Len(attempts) : ~Failed(attempts[i]) => i = Len(attempts)

C4_Witness ==
    /\ useAlsaDeviceString
    /\ pc = "finished"
    /\ Len(attempts) = 3
    /\ ~Failed(attempts[3])

\* the first input-capable device whose name contains pattern, ignoring case
FirstInputNamed(pattern) ==
    LET hits == { i \in 1..Len(devices) :
                    /\ devices[i].maxInputChannels >= 1
                    /\ Find(ToLowerStr(devices[i].name), pattern) }
    IN IF hits = {} THEN 0 ELSE CHOOSE i \in hits : \A j \in hits : i <= j

\* the endpoint of the fallback, as a position in the device table (0: none)
SharedServerEndpoint ==
    IF FirstInputNamed(<<"p","u","l","s","e">>) # 0
    THEN FirstInputNamed(<<"p","u","l","s","e">>)
    ELSE FirstInputNamed(<<"d","e","f","a","u","l","t">>)

AllTenFailed ==
    /\ useAlsaDeviceString
    /\ Len(attempts) >= 10
    /\ \A i \in 1..10 : Failed(attempts[i])

\* C5: when all 10 device-string combinations have failed and the negotiation
\* is over, then, if an input-capable device named "pulse", else "default",
\* exists, exactly one more open was made, on the first such device, with
\* min(its maximum input channels, 2) channels; if none exists no more open
\* was made.
C5_OneFallbackOpen ==
    (AllTenFailed /\ NegotiationOver) =>
        IF SharedServerEndpoint = 0
        THEN Len(attempts) = 10
        ELSE /\ Len(attempts) = 11
             /\ attempts[11].params.device = SharedServerEndpoint - 1
             /\ attempts[11].params.deviceString = NoString
             /\ attempts[11].params.channelCount
                    = Min2(devices[SharedServerEndpoint].maxInputChannels, 2)

C5_Witness ==
    /\ AllTenFailed
    /\ NegotiationOver
    /\ Len(attempts) = 11
    /\ devices[SharedServerEndpoint].maxInputChannels = 3
    /\ attempts[11].params.channelCount = 2
    /\ SharedServerEndpoint = 2

\* C6: when the negotiation is over and every open attempt made has failed,
\* the session has failed (exit status EXIT_FAILURE, or the capture thread has
\* returned), the error reported is the last attempt's, no stream is open
\* and the stream can no longer be started.
C6_LastErrorReported ==
    (/\ NegotiationOver
     /\ attempts # <<>>
     /\ \A i \in 1..Len(attempts) : Failed(attempts[i]))
    => /\ pc = (IF variant = "cli" THEN "exited" ELSE "returned")
       /\ exitStatus = (IF variant = "cli" THEN "EXIT_FAILURE" ELSE "thread_returned")
       /\ reportedErr = attempts[Len(attempts)].result
       /\ stream = <<>>
       /\ ~ENABLED StartStream

C6_Witness ==
    /\ useAlsaDeviceString
    /\ NegotiationOver
    /\ Len(attempts) = 11
    /\ Failed(attempts[11])
    /\ reportedErr = attempts[11].result

\* C7 as stated: with no card index and a device resolved, once the
\* negotiation is over exactly one open was made, on that device, with
\* min(its maximum input channels, 2) channels and its own low input latency,
\* and if it failed the session has failed.
C7_GenericSingleOpen ==
    (~useAlsaDeviceString /\ device # paNoDevice /\ NegotiationOver) =>
        /\ Len(attempts) = 1
        /\ attempts[1].params.device = device
        /\ attempts[1].params.channelCount
                = Min2(devices[device + 1].maxInputChannels, 2)
        /\ attempts[1].params.suggestedLatency
                = devices[device + 1].defaultLowInputLatency
        /\ Failed(attempts[1]) => (pc \in {"exited", "returned"} /\ stream = <<>>)

\* C8: an open stream was opened with the channel count that inputChannels
\* records.
C8_RecordedChannels ==
    stream # <<>> => inputChannels = stream[1].channelCount

C8_Witness ==
    /\ pc = "running"
    /\ stream # <<>>
    /\ stream[1].channelCount = 1
    /\ inputChannels = 1

----------------------------------------------------------------------------
(* Buffer handoff: the properties checked                                  *)

WriterInside == wpc \in {"rate", "time", "freq", "ready", "unlock"}

ReaderInside == rpc \in {"check", "time", "freq", "clear", "unlock"}

ConsumingReads == { i \in 1..Len(reads) : reads[i].ready }

\* C9: a refresh finds dataReady true exactly when the newest published frame
\* is not the one already shown; such a refresh shows that frame and clears
\* dataReady, so that until the next publish every refresh finds dataReady
\* false and replots nothing; no frame is shown twice.
C9_RoundTrip ==
    /\ \A i \in 1..Len(reads) : reads[i].ready <=> (reads[i].newest # reads[i].shown)
    /\ \A i, j \in 1..Len(rendered) : i < j => rendered[i][1] < rendered[j][1]
    /\ \A i \in 1..Len(rendered) : \E k \in 1..Len(published) : published[k] = rendered[i][1]
    /\ Cardinality(ConsumingReads)
            = Len(rendered) + (IF rpc \in {"time", "freq", "clear"} THEN 1 ELSE 0)
    /\ replots = 2 * Len(rendered)
                    + (IF rpc = "freq" THEN 1 ELSE IF rpc = "clear" THEN 2 ELSE 0)
    /\ dataMutex = "free" =>
            (dataReady <=> (published # <<>> /\ published[Len(published)] # plotTime))

\* one publish, a refresh that consumed it, and a second refresh that found
\* nothing new
C9_Witness ==
    /\ published = <<1>>
    /\ Len(reads) = 2
    /\ reads[1].ready
    /\ ~reads[2].ready
    /\ rendered = << <<1, 1>> >>
    /\ replots = 2
    /\ rpc = "idle"
    /\ ~dataReady

\* C10: updateAudioData and refreshPlots are never inside their locked
\* regions together, each touches dataReady and the buffers only while it
\* holds dataMutex, and every refresh shows a time buffer and a magnitude
\* buffer of one and the same completely published frame.
C10_NoOverlap ==
    /\ ~(WriterInside /\ ReaderInside)
    /\ WriterInside => dataMutex = "writer"
    /\ ReaderInside => dataMutex = "reader"
    /\ rpc = "clear" => plotTime = plotFreq
    /\ \A i \in 1..Len(rendered) :
            /\ rendered[i][1] = rendered[i][2]
            /\ \E k \in 1..Len(published) : published[k] = rendered[i][1]

\* the callback has frame 2 to publish and waits while a refresh shows frame 1
C10_Witness ==
    /\ rpc = "freq"
    /\ dataMutex = "reader"
    /\ wpc = "lock"
    /\ wframe = 2
    /\ plotTime = 1

\* the refreshes that found dataReady set, in order
ConsumingReadSeq == SelectSeq(reads, LAMBDA r : r.ready)

\* the frames published between the previous consuming refresh and the i-th
FramesBefore(i) ==
    { f \in 1..ConsumingReadSeq[i].newest :
        f > (IF i = 1 THEN 0 ELSE ConsumingReadSeq[i - 1].newest) }

\* C11: of the frames published between two consecutive consuming refreshes,
\* the later refresh shows exactly the one published last; the frames
\* published before it in that interval are never shown.
C11_LastWriterWins ==
    /\ Len(rendered) <= Len(ConsumingReadSeq)
    /\ \A i \in 1..Len(rendered) :
            /\ rendered[i] = <<ConsumingReadSeq[i].newest, ConsumingReadSeq[i].newest>>
            /\ \A f \in FramesBefore(i) :
                    f # ConsumingReadSeq[i].newest
                        => \A j \in 1..Len(rendered) : rendered[j][1] # f
    /\ \A k \in 1..Len(published) : published[k] = k

\* frames 1 and 2 are published before the first refresh, which shows frame 2
C11_Witness ==
    /\ Len(published) >= 2
    /\ Len(reads) = 1
    /\ reads[1].ready
    /\ reads[1].newest = 2
    /\ rendered = << <<2, 2>> >>

\* C12: refreshPlots holds dataMutex only while it copies the buffers out and
\* clears dataReady, and replots after it has released the mutex; the
\* callback never waits for dataMutex while a replot is still to be done.
C12_RenderOutsideLock ==
    /\ rpc \in {"time", "freq"} => dataMutex # "reader"
    /\ ~(wpc = "lock" /\ rpc \in {"time", "freq"})

----------------------------------------------------------------------------
(* The capture session: the properties checked                             *)

Count(seq, x) == Cardinality({ i \in 1..Len(seq) : seq[i] = x })

IsPrefix(a, b) == Len(a) <= Len(b) /\ SubSeq(b, 1, Len(a)) = a

Reverse(seq) == [i \in 1..Len(seq) |-> seq[Len(seq) + 1 - i]]

StreamEnded == ~streamActive /\ stream = <<>>

\* C13: shouldStop is read by the capture thread's wait loop only; once it is
\* set while the session runs, at most one more Pa_Sleep(100) ends before the
\* loop sees it, and the capture thread then stops and closes the stream and
\* finishes.
C13_StopObserved ==
    /\ [](sleepsAfterStop <= 1 /\ polledBy \subseteq {"capture thread"})
    /\ (shouldStop /\ pc \in {"running", "sleeping"})
            ~> (pc = "finished" /\ StreamEnded /\ Count(released, "stream") = 1)

\* the window was closed while the capture thread slept; the thread has seen
\* the flag after that sleep and has finished
C13_Witness ==
    /\ variant = "gui"
    /\ shouldStop
    /\ mpc = "closed"
    /\ sleepsAfterStop = 1
    /\ polledBy = {"capture thread"}
    /\ pc = "finished"
    /\ StreamEnded

\* the order in which a session that ends releases what it holds
ReleaseOrder ==
    IF variant = "cli"
    THEN <<"stream", "library", "plan", "in", "out", "struct">>
    ELSE <<"stream", "library", "plan", "in", "out", "filtered", "filterHistory",
           "struct">>

\* C14 as stated: a session that has ended has released its resources in the
\* reverse of the order of their acquisition (library, struct, buffers, plan,
\* stream).
C14_ReverseOfAcquisition ==
    pc = "finished" => released = Reverse(acquired \o <<"stream">>)

\* C14: the end of a session stops the stream, then closes it, then
\* terminates the audio library, destroys the plan, frees the buffers in the
\* order of their allocation and frees the session struct last, each once.
C14_TeardownOrder ==
    /\ pc \in {"teardown", "finished"} => IsPrefix(released, ReleaseOrder)
    /\ pc = "teardown" /\ step <= 2 => released = <<>> /\ stream # <<>>
    /\ pc = "teardown" /\ step = 1 => streamActive
    /\ pc = "teardown" /\ step > 2 => StreamEnded
    /\ pc = "finished" => released = ReleaseOrder /\ StreamEnded

\* a GUI session ended by the stop flag, everything released
C14_Witness ==
    /\ variant = "gui"
    /\ shouldStop
    /\ pc = "finished"
    /\ Len(released) = 8
    /\ released[2] = "library"
    /\ released[8] = "struct"

\* the stream was opened at some time
StreamWasOpened == \E i \in 1..Len(attempts) : attempts[i].result = paNoError

\* C15: each frame buffer is allocated once, before any Pa_OpenStream; it is
\* freed once when the capture thread is over, and only after the stream was
\* stopped and closed; no callback runs after a buffer was freed.
C15_BufferLifetime ==
    /\ \A b \in FrameBuffers : Count(acquired, b) <= 1 /\ Count(released, b) <= 1
    /\ attempts # <<>> => \A b \in FrameBuffers : Count(acquired, b) = 1
    /\ BuffersFreed => StreamEnded /\ Count(released, "stream") = 1
    /\ pc \in {"finished", "returned"} /\ StreamWasOpened
            => \A b \in FrameBuffers : Count(released, b) = 1
    /\ ~staleAccess
    /\ wpc # "idle" => ~BuffersFreed

----------------------------------------------------------------------------
(* Device resolution: the properties checked                               *)

\* the scan and the choice of the path are over
Resolved == pc \notin {"cards", "usbid", "choose"}

\* lines of CardLines that name the device, and lines that carry no index
NamingLines == {Line_0_THR5, Line_2_yamaha, Line_cont_Yamaha}

ContinuationLines == {Line_cont_Yamaha, Line_cont_PCH}

\* the index written on an indexed line of CardLines
WrittenIndex(line) ==
    IF line = Line_0_THR5 THEN 0 ELSE IF line = Line_1_PCH THEN 1 ELSE 2

\* the index that belongs to line i of the registry: its own, or that of the
\* nearest indexed line above it (-1: there is none)
IndexOfLine(i) ==
    LET indexed == { j \in 1..i : cards[j] \notin ContinuationLines }
    IN IF indexed = {} THEN -1
       ELSE WrittenIndex(cards[CHOOSE j \in indexed : \A k \in indexed : k <= j])

\* the card the registry names: that of its first naming line with an index
RegistryCard ==
    LET hits == { i \in 1..Len(cards) : cards[i] \in NamingLines /\ IndexOfLine(i) >= 0 }
    IN IF hits = {} THEN -1
       ELSE IndexOfLine(CHOOSE i \in hits : \A k \in hits : i <= k)

\* the card whose usbid file, among those read, holds the id looked for
UsbCard ==
    LET hits == { i \in 1..Len(asoundDir) : asoundDir[i].usbid = S_usbid_THR5_line }
    IN IF hits = {} THEN -1
       ELSE IF asoundDir[CHOOSE i \in hits : \A k \in hits : i <= k].name = S_card0
       THEN 0 ELSE 1

\* the first input device of the table with this name (paNoDevice: none)
InputNamed(name) ==
    LET hits == { i \in 1..Len(devices) :
                    devices[i].name = name /\ devices[i].maxInputChannels > 0 }
    IN IF hits = {} THEN paNoDevice
       ELSE (CHOOSE i \in hits : \A k \in hits : i <= k) - 1

\* the device the generic list gives: THR5, else Yamaha, else USB
GenericDevice ==
    IF InputNamed(S_THR5) # paNoDevice THEN InputNamed(S_THR5)
    ELSE IF InputNamed(S_Yamaha) # paNoDevice THEN InputNamed(S_Yamaha)
    ELSE InputNamed(S_USB)

\* the registry's first naming line is the one of card 0
C16_Scenario ==
    \E i \in 1..Len(cards) :
        /\ cards[i] = Line_0_THR5
        /\ \A j \in 1..(i - 1) : cards[j] \in {Line_1_PCH, Line_cont_PCH}

\* C16: a registry whose first naming line is that of card 0 makes
\* getThr5AlsaCardIndex return 0 without any usbid file being read, and the
\* session takes the card path with the device strings of card 0; a result
\* takes the card path exactly when it is not negative.
C16_CardIndexZero ==
    /\ C16_Scenario /\ pc # "cards" => result = 0 /\ asoundDir = <<>>
    /\ C16_Scenario /\ Resolved =>
            /\ thr5CardIndex = 0
            /\ useAlsaDeviceString
            /\ device = paNoDevice
            /\ exitStatus = "none"
            /\ pc \in {"candidates", "alsa_open"}
            /\ pc = "alsa_open" => deviceCandidates = ExpectedCandidates(0)
    /\ Resolved => (useAlsaDeviceString <=> thr5CardIndex >= 0)
    /\ Resolved /\ thr5CardIndex < 0 => pc \notin {"candidates", "alsa_open"}

\* card 0 is named on the second line of the registry, and the session is on
\* the card path
C16_Witness ==
    /\ cards = <<Line_1_PCH, Line_0_THR5>>
    /\ lineNo = 2
    /\ result = 0
    /\ thr5CardIndex = 0
    /\ pc = "alsa_open"
    /\ deviceCandidates[1] = <<"p","l","u","g","h","w",":","0",",","0">>

\* resolution failed: the session is over, as a failure, and Pa_OpenStream
\* was never called
ResolutionFailed ==
    /\ pc \in {"exited", "returned"}
    /\ exitStatus = FailStatus
    /\ attempts = <<>>
    /\ stream = <<>>
    /\ ~ENABLED OpenGeneric
    /\ ~ENABLED BuildCandidates

\* what C17 and its amended form share: the registry first, the usbid files
\* only when the registry names no card, the device table only when neither
\* names one; a session that has chosen a card or a device goes on to
\* Pa_OpenStream
StrategiesInOrder ==
    /\ RegistryCard >= 0 =>
            thr5CardIndex = RegistryCard /\ asoundDir = <<>> /\ device = paNoDevice
    /\ RegistryCard < 0 /\ UsbCard >= 0 =>
            thr5CardIndex = UsbCard /\ device = paNoDevice
    /\ RegistryCard < 0 /\ UsbCard < 0 => thr5CardIndex = -1
    /\ RegistryCard < 0 /\ UsbCard < 0 /\ GenericDevice # paNoDevice =>
            device = GenericDevice
    /\ thr5CardIndex >= 0 \/ device # paNoDevice => ~ResolutionFailed
    /\ pc \in {"exited", "returned"} /\ attempts = <<>> => ResolutionFailed

NothingFound == RegistryCard < 0 /\ UsbCard < 0 /\ GenericDevice = paNoDevice

----------------------------------------------------------------------------
(* The signal path: the properties checked                                 *)

\* the downmix of the current callback has just been written to in
Downmixed ==
    \/ variant = "gui" /\ cbpc = "filter"
    \/ variant = "cli" /\ cbpc = "transform"

\* C18: after the downmix of a callback with N frames of C channels, sample i
\* of in is the interleaved input sample at index i*C, which is channel 0 of
\* frame i, for every i in 0..N-1, and no input index >= N*C has been read
C18_DownmixChannelZero ==
    Downmixed =>
        /\ Len(in_) = FramesPerCallback
        /\ \A i \in 0..(FramesPerCallback - 1) :
              /\ in_[i + 1] = cbInput[i * inputChannels + 1]
              /\ in_[i + 1] = FrameOf(cbInput, i, inputChannels)[1]
        /\ \A k \in readIndices : k >= 0 /\ k < FramesPerCallback * inputChannels

\* a stereo buffer whose channels differ in some frame has been downmixed
C18_Witness ==
    /\ Downmixed
    /\ inputChannels = 2
    /\ \E i \in 0..(FramesPerCallback - 1) :
          /\ FrameOf(cbInput, i, 2)[1] # FrameOf(cbInput, i, 2)[2]
          /\ i > 0
    /\ readIndices # {}

AllZero(s) == \A i \in 1..Len(s) : s[i] = 0

\* the callback has filtered and transformed its frame
Transformed == cbpc = "return"

\* C19: in every callback of a session, not only the first, a frame of
\* all-zero input yields an all-zero transform output after the filter and
\* the transform
C19_ZeroPreservation ==
    Transformed /\ AllZero(cbInput) => AllZero(out)

\* the samples the filter still holds when the current callback starts are
\* zero: it is the first callback, or the last FilterTaps-1 downmixed samples
\* of the callback before were zero
QuietBefore ==
    \/ ncallbacks = 1
    \/ /\ ncallbacks > 1
       /\ \A i \in 1..FramesPerCallback :
             i > FramesPerCallback - (FilterTaps - 1) => before[i] = 0

\* C19 (amended): a frame of all-zero input yields an all-zero filter output
\* and an all-zero transform output in the first callback, in every callback
\* of the unfiltered CLI variant, and in a later callback of the GUI variant
\* when the last FilterTaps-1 samples before it were zero
C19_ZeroPreservedFromQuiet ==
    Transformed /\ AllZero(cbInput) /\ (variant = "cli" \/ QuietBefore) =>
        /\ Len(out) = FramesPerCallback
        /\ AllZero(out)
        /\ variant = "gui" => AllZero(filtered) /\ AllZero(filterHistory)

\* a later callback of the GUI variant with a filter that is not null: the
\* callback before carried signal, but not in its last samples, and the zero
\* frame came out zero
C19_Witness ==
    /\ Transformed
    /\ variant = "gui"
    /\ \A j \in 1..FilterTaps : b_[j] # 0
    /\ ncallbacks = 2
    /\ ~AllZero(before)
    /\ QuietBefore
    /\ AllZero(cbInput)
    /\ AllZero(out)

----------------------------------------------------------------------------
(* The drawing: the properties checked                                     *)

\* C20: the index start_index + floor((i/D)^4 * span) sampled for column i is
\* non-decreasing in i over 0..D-1, for every D >= 10, start_index and span
\* (that the index sampled is this one is compared on the terminal widths
\* whose products stay within 32-bit integers)
C20_BucketIndexMonotone ==
    cbpc \in {"draw", "idle"} =>
        /\ dispSize >= MinDispSize
        /\ dispSize < MaxColumns =>
              \A i \in 1..Len(sampled) :
                 /\ sampled[i] * dispSize ^ 4 <=
                       startIndex * dispSize ^ 4 + (i - 1) ^ 4 * spectroSize
                 /\ startIndex * dispSize ^ 4 + (i - 1) ^ 4 * spectroSize <
                       (sampled[i] + 1) * dispSize ^ 4
        /\ \A i, j \in 1..Len(sampled) : i <= j => sampled[i] <= sampled[j]

\* a whole line of more than ten columns has been drawn over the program's
\* window: the first columns share a bucket, the last ones do not
C20_Witness ==
    /\ cbpc = "idle"
    /\ dispSize > MinDispSize
    /\ Len(sampled) = dispSize
    /\ <<startIndex, spectroSize>> = <<StartIndexOf, SpectroSizeOf>>
    /\ sampled[1] = sampled[2]
    /\ sampled[dispSize - 1] < sampled[dispSize]

----------------------------------------------------------------------------
(* The publication of a frame: the properties checked                      *)

\* the lock is held all through the publication, and the frame is marked
\* ready only by its last step
PublishDiscipline ==
    /\ WriterInside => dataMutex = "writer" /\ rpc \in {"idle", "lock"}
    /\ wpc \in {"rate", "time", "freq", "ready"} =>
          published = <<>> \/ published[Len(published)] < wframe
    /\ wpc = "unlock" =>
          /\ dataReady
          /\ published # <<>> /\ published[Len(published)] = wframe
          /\ currentSampleRate = SAMPLE_RATE
          /\ amplitudeBuffer = wframe /\ amplitudeValues = filtered
          /\ magnitudeBuffer = wframe

\* C21: each publish writes, under the shared lock, the filtered time-domain
\* buffer, the transform output unmodified and in its full length, and the
\* sample rate into the shared buffers, and marks them dirty only after
\* those writes
C21_PublishesRawTransform ==
    /\ PublishDiscipline
    /\ wpc = "unlock" => magnitudeValues = out

\* C21 (amended): each publish writes, under the shared lock, the filtered
\* time-domain buffer, the magnitudes abs(v)/N in dB, floored at -80 dB, of
\* the first N/2 elements v of the transform output, and the sample rate, and
\* marks the shared buffers dirty only after those writes
C21_PublishesMagnitudes ==
    /\ PublishDiscipline
    /\ wpc = "unlock" =>
          /\ Len(magnitudeValues) = FramesPerCallback \div 2
          /\ \A i \in 1..(FramesPerCallback \div 2) :
                LET m == magnitudeValues[i]
                IN IF out[i] = 0
                   THEN m.num * 10000 = m.den
                   ELSE m.num * FramesPerCallback = Abs(out[i]) * m.den

\* the second frame has just been published while a refresh waits for the
\* lock; the transform output has a negative element among those published
C21_Witness ==
    /\ wpc = "unlock"
    /\ ncallbacks = 2
    /\ rpc = "lock"
    /\ ~AllZero(filtered)
    /\ \E i \in 1..(FramesPerCallback \div 2) : out[i] < 0

----------------------------------------------------------------------------
(* Failures before the stream runs: the properties checked                 *)

\* the session ended between its acquisitions and the start of its stream:
\* no device count, no device, no stream opened, or no stream started
EndedBeforeRunning == pc \in {"exited", "returned"} /\ step = 0

\* C22: when the device resolution or the negotiation fails, the CLI variant
\* terminates with a non-zero exit status, and the GUI variant ends the
\* capture thread with nothing published then or later: dataReady stays false
C22_FailureOutcome ==
    EndedBeforeRunning =>
        /\ variant = "cli" => exitStatus = "EXIT_FAILURE"
        /\ variant = "gui" =>
              /\ exitStatus = "thread_returned"
              /\ ~streamActive
              /\ ~dataReady /\ published = <<>> /\ wpc = "idle"

----------------------------------------------------------------------------
(* Several matches: the properties checked                                 *)

\* the input devices of the table that one of the three patterns matches
\* (the names of the tables followed are the patterns themselves, or "default")
MatchingDevices ==
    { i \in 0..(Len(devices) - 1) :
        /\ devices[i + 1].maxInputChannels > 0
        /\ devices[i + 1].name \in {S_THR5, S_Yamaha, S_USB} }

\* the input devices this pattern matches
DevicesHolding(pat) == { i \in MatchingDevices : devices[i + 1].name = pat }

\* the registry lines that name the device and belong to a card
MatchingLines ==
    { i \in 1..Len(cards) : cards[i] \in NamingLines /\ IndexOfLine(i) >= 0 }

\* the registry's first matching line gives the card, whatever follows it
FirstCardWins ==
    MatchingLines # {} =>
        /\ \A i \in MatchingLines : lineNo <= i + 1
        /\ \E i \in MatchingLines :
              /\ \A k \in MatchingLines : i <= k
              /\ thr5CardIndex = IndexOfLine(i)

\* the session chose its device from the table by name
ChosenByName == Resolved /\ thr5CardIndex < 0 /\ MatchingDevices # {}

----------------------------------------------------------------------------
(* The usbid fallback: the properties checked                              *)

\* the identity record of a usbid file: its first line without the newline
RecordOf(usbid) ==
    IF usbid # <<>> /\ usbid[Len(usbid)] = "\n"
    THEN SubSeq(usbid, 1, Len(usbid) - 1)
    ELSE usbid

\* entry i of the directory is a card directory with a usbid file
HasRecord(i) ==
    /\ asoundDir[i].name \in {S_card0, S_card1}
    /\ asoundDir[i].usbid # NoString

\* the usbid scan is over and has accepted the card of the entry read last
AcceptedByUsbId ==
    /\ pc \notin {"cards", "usbid"}
    /\ cards = <<>>
    /\ result >= 0

\* C24: the usbid fallback accepts a card only when its identity record is
\* exactly 0499:1506; a record that starts with the id and goes on, or holds
\* it elsewhere, is not accepted
C24_ExactRecordOnly ==
    AcceptedByUsbId =>
        /\ asoundDir # <<>>
        /\ HasRecord(Len(asoundDir))
        /\ RecordOf(asoundDir[Len(asoundDir)].usbid) = S_usbid_THR5

\* the first nine characters of the record are the id
StartsWithId(usbid) ==
    /\ Len(usbid) >= Len(S_usbid_THR5)
    /\ SubSeq(usbid, 1, Len(S_usbid_THR5)) = S_usbid_THR5

\* C24 (amended): the usbid fallback accepts the first card directory read
\* whose identity record starts with 0499:1506, whatever follows the id; a
\* record that holds the id elsewhere than at its start is not accepted
C24_RecordStartsWithId ==
    /\ AcceptedByUsbId =>
          /\ asoundDir # <<>>
          /\ HasRecord(Len(asoundDir))
          /\ StartsWithId(asoundDir[Len(asoundDir)].usbid)
          /\ result = (IF asoundDir[Len(asoundDir)].name = S_card0 THEN 0 ELSE 1)
          /\ \A i \in 1..(Len(asoundDir) - 1) :
                HasRecord(i) => ~StartsWithId(asoundDir[i].usbid)
    /\ pc \notin {"cards", "usbid"} /\ cards = <<>> /\ result < 0 =>
          \A i \in 1..Len(asoundDir) :
              HasRecord(i) => ~StartsWithId(asoundDir[i].usbid)

\* a record holding the id after another character was passed over, then a
\* record going on after the id was accepted, and the session is on the card
\* path of that card
C24_Witness ==
    /\ AcceptedByUsbId
    /\ Len(asoundDir) = 2
    /\ asoundDir[1].usbid = S_usbid_inner
    /\ asoundDir[2].usbid = S_usbid_longer
    /\ thr5CardIndex = result
    /\ pc = "alsa_open"

----------------------------------------------------------------------------
(* Matching on empty strings: the properties checked                       *)

IsEmptyOrNull(p) == p = NullPtr \/ p = <<>>

----------------------------------------------------------------------------
(* The filter's history and output: the properties checked                 *)

\* x[k - j]: the downmixed sample that entered the filter j steps before
\* sample k (1-based) of the current callback; it comes from the current
\* buffer, else from the previous one, else nothing was inserted yet
Earlier(k, j) ==
    LET cur == ChannelZero(cbInput, inputChannels)
        idx == k - j
    IN IF idx >= 1 THEN cur[idx]
       ELSE IF Len(before) + idx >= 1 THEN before[Len(before) + idx]
       ELSE 0

\* the history the filter must hold after sample k of the current callback
HistoryAt(k) == [j \in 1..FilterTaps |-> Earlier(k, j - 1)]

FilterDone ==
    variant = "gui" /\ ncallbacks > 0 /\ cbpc \in {"transform", "return", "publishing", "idle"}

\* C26: the history buffer always has FILTER_ORDER entries; after each input
\* sample is processed entry 0 holds that sample and entry j the sample
\* inserted j steps earlier (zero when fewer than j were inserted), the
\* history being carried from one callback to the next
C26_HistoryHoldsLastSamples ==
    variant = "gui" =>
        /\ Len(filterHistory) = FilterTaps
        /\ cbpc = "filter" =>
               \A k \in 1..FramesPerCallback :
                   FirRun(filterHistory, SubSeq(in_, 1, k), <<>>).history = HistoryAt(k)
        /\ FilterDone => filterHistory = HistoryAt(FramesPerCallback)

\* the second callback is about to be filtered: the history still holds the
\* last samples of the first callback, most recent first, and the first
\* sample of the second goes in front of a non-zero sample of the first
C26_Witness ==
    /\ variant = "gui"
    /\ cbpc = "filter"
    /\ ncallbacks = 2
    /\ filterHistory = [j \in 1..FilterTaps |-> before[Len(before) + 1 - j]]
    /\ filterHistory[1] = 1
    /\ in_[1] = 0
    /\ FirRun(filterHistory, SubSeq(in_, 1, 1), <<>>).history[2] = 1
    /\ FirRun(filterHistory, SubSeq(in_, 1, 1), <<>>).history = HistoryAt(1)

\* C27: filtered[i] is the sum over j of b[j] * x[i - j], coefficient 0 paired
\* with the most recent sample, and the transform receives the filtered
\* buffer, not the raw downmix
C27_FilteredIsConvolution ==
    variant = "gui" /\ ncallbacks > 0 /\ cbpc \in {"transform", "return", "publishing"} =>
        /\ \A i \in 1..FramesPerCallback :
               filtered[i] = SumSeq([j \in 1..FilterTaps |-> b_[j] * Earlier(i, j - 1)])
        /\ in_ = filtered
        /\ cbpc # "transform" => out = R2HC(filtered)

\* a second callback whose filtered buffer differs from its downmix has been
\* transformed, and the transform's values are not those of the downmix
C27_Witness ==
    /\ variant = "gui"
    /\ cbpc = "return"
    /\ ncallbacks = 2
    /\ filtered # ChannelZero(cbInput, inputChannels)
    /\ \E i \in 1..Len(before) : before[i] # 0
    /\ out = R2HC(filtered)
    /\ out # R2HC(ChannelZero(cbInput, inputChannels))

----------------------------------------------------------------------------
(* The glyph of a column: the properties checked                           *)

\* C28: a sampled value v is drawn as tier k of 8 when
\* k * 0.125 <= v < (k + 1) * 0.125, as the lowest tier when v < 0 and as the
\* highest when v >= 1: one glyph for every value
C28_GlyphOfTier ==
    glyph # -1 =>
        /\ glyph \in 0..(NumTiers - 1)
        /\ \A k \in 0..(NumTiers - 1) :
               (k * FreqResolution <= NumTiers * freq
                    /\ NumTiers * freq < (k + 1) * FreqResolution) => glyph = k
        /\ freq < 0 => glyph = 0
        /\ freq >= FreqResolution => glyph = NumTiers - 1

\* a column was drawn for a value that lies on the threshold 3 * 0.125
C28_Witness ==
    /\ cbpc = "draw"
    /\ column > 0
    /\ NumTiers * freq = 3 * FreqResolution
    /\ glyph = 3

----------------------------------------------------------------------------
(* The callback's result and the status flags: the properties checked      *)

\* C29: the callback returns 0 (continue) on every invocation, whatever the
\* input samples and the status flags are
C29_CallbackReturnsContinue ==
    /\ \A i \in 1..Len(cbResults) : cbResults[i] = 0
    /\ cbpc = "idle" => Len(cbResults) = ncallbacks

\* two callbacks have returned, the second one delivered with an overflow
\* flag and a buffer that is not silent
C29_Witness ==
    /\ cbpc = "idle"
    /\ ncallbacks = 2
    /\ statusFlags = "paInputOverflow"
    /\ ~AllZero(cbInput)
    /\ Len(cbResults) = 2
    /\ cbResults[2] = 0

\* C30: a callback whose status flags signal a failure does not publish its
\* buffer to SharedSpectrum: updateAudioData is not called by it
C30_NoPublishOnFailure ==
    statusFlags # "none" => cbpc # "publishing" /\ wframe # ncallbacks

----------------------------------------------------------------------------
(* No negotiation after the start: the properties checked                  *)

\* the steps of the device resolution and of the open-time negotiation
NegotiationPcs ==
    {"enumerate", "resolve", "candidates", "alsa_open", "fallback",
     "open_generic", "start"}

\* Pa_StartStream has succeeded in this session
StreamStarted ==
    \/ pc \in {"running", "sleeping", "teardown", "finished"}
    \/ pc = "exited" /\ step > 0 /\ Len(acquired) = Len(AcquisitionOrder)

\* C31: once the stream has been started, no step of the session resolves a
\* device or attempts to open a stream again, whatever happens during capture
C31_NoNegotiationAfterStart ==
    [][StreamStarted =>
          /\ pc' \notin NegotiationPcs
          /\ attempts' = attempts
          /\ device' = device
          /\ thr5CardIndex' = thr5CardIndex
          /\ inputParameters' = inputParameters
          /\ alsaDeviceString' = alsaDeviceString]_vars

\* a started session that was opened at its second attempt or later, a frame
\* of which has been published, is in its teardown
C31_Witness ==
    /\ pc = "teardown"
    /\ Len(attempts) >= 2
    /\ nframes > 0
    /\ ~streamActive

----------------------------------------------------------------------------
(* The range of the index sampled: the properties checked                  *)

\* C32: for every display width D >= 10 and every column, the index sampled
\* lies in [startIndex, startIndex + spectroSize); with the program's window
\* it is inside the transform output buffer and at or below the bin N/2
C32_SampledIndexInWindow ==
    /\ cbpc = "draw" => dispSize >= MinDispSize
    /\ \A i \in 1..Len(sampled) :
          /\ spectroSize > 0 =>
                 startIndex <= sampled[i] /\ sampled[i] < startIndex + spectroSize
          /\ (startIndex = StartIndexOf /\ spectroSize = SpectroSizeOf) =>
                 /\ 0 <= sampled[i]
                 /\ sampled[i] < FRAMES_PER_BUFFER
                 /\ sampled[i] <= FRAMES_PER_BUFFER \div 2

\* a whole line was drawn on the fallback width with the program's window,
\* from the first index of the window to one near its end
C32_Witness ==
    /\ cbpc = "idle"
    /\ startIndex = 1
    /\ spectroSize = 232
    /\ startIndex = StartIndexOf
    /\ spectroSize = SpectroSizeOf
    /\ dispSize = FallbackColumns - 1
    /\ Len(sampled) = dispSize
    /\ sampled[1] = startIndex
    /\ sampled[dispSize] = 223

----------------------------------------------------------------------------
(* Continuation lines of the registry: the properties checked              *)

\* the naming lines that no accepted line precedes
FirstMatchingLine(i) == i \in MatchingLines /\ \A k \in MatchingLines : i <= k

\* C33: a matching line without a leading index resolves to the index of the
\* most recent indexed line before it, and a matching line that comes before
\* any indexed line is not accepted: the scan goes on past it
C33_ContinuationLineIndex ==
    pc # "cards" =>
        \A i \in 1..Len(cards) :
            /\ (cards[i] \in ContinuationLines /\ FirstMatchingLine(i)) =>
                   /\ lineNo = i
                   /\ cardIndex = IndexOfLine(i)
                   /\ result = cardIndex
            /\ (cards[i] \in NamingLines /\ IndexOfLine(i) < 0) =>
                   /\ lineNo > i
                   /\ cardIndex >= 0 => cardIndex = IndexOfLine(lineNo)

\* the scan ended on a continuation line naming the device under card 1
C33_Witness ==
    /\ pc = "choose"
    /\ cards = <<Line_1_PCH, Line_cont_Yamaha>>
    /\ lineNo = 2
    /\ cardIndex = 1
    /\ result = 1

----------------------------------------------------------------------------
(* The App pointer at the end of the GUI session: the properties checked   *)

\* main is past audioThread.join(): it clears g_app, returns and destroys
\* the App
PastJoin == mpc \in {"clear", "done"}

\* C34: in the GUI variant no callback calls updateAudioData once g_app is
\* cleared or the App destroyed: main sets the stop flag, joins the capture
\* thread, which has stopped the stream or never started it, and only then
\* clears the pointer
C34_NoUpdateAfterClear ==
    variant = "gui" =>
        /\ PastJoin =>
               /\ shouldStop
               /\ pc \in {"finished", "returned"}
               /\ ~streamActive
               /\ wpc = "idle"
        /\ g_app = "nullptr" => PastJoin /\ mpc = "done"
        /\ wpc # "idle" => g_app # "nullptr" /\ ~PastJoin

\* the window was closed while frames were being published; the capture
\* thread has finished its teardown and main has cleared the pointer
C34_Witness ==
    /\ variant = "gui"
    /\ mpc = "done"
    /\ g_app = "nullptr"
    /\ pc = "finished"
    /\ nframes > 0
    /\ published # <<>>
    /\ ~streamActive

====
